---- MODULE Spec2Model ----
(***************************************************************************)
(* Publisher / subscriber lifecycle and sequence numbering of msg_handler.  *)
(*                                                                         *)
(* An adapter is one of ZmqPublisher, AsyncZmqPublisher, ZmqSubscriber,    *)
(* AsyncZmqSubscriber, constructed either without a context or with the    *)
(* application's shared context of its concurrency kind.  The transport    *)
(* (pyzmq) is modelled by what the adapter does to it: sockets that are    *)
(* created, configured, bound/connected, subscribed and closed, contexts   *)
(* that are created and terminated, and bind/connect/subscribe/send calls  *)
(* that may fail.  Adapters do not interact except through a shared        *)
(* context, so one adapter is explored in every configuration.             *)
(***************************************************************************)
EXTENDS Integers, Sequences, FiniteSets, TLC

Adapters == {"a1"}
Envs == {"e1"}

\* Bounds of the exploration.
MaxSetups == 3
MaxSends == 3
MaxFrames == 2
MaxPreset == 2
MaxLen == 4

Kinds == {"pub", "apub", "sub", "asub"}
MsgKinds == {"sensor", "display", "motor"}
SharedCtx == {"Context", "AsyncContext"}

VARIABLES
    kind,            \* which class the adapter is an instance of
    is_own_context,  \* self.is_own_context
    is_bind,         \* bind (TRUE) or connect (FALSE): is_bind / not is_connect
    topics,          \* self.topics (subscribers)
    expected_type,   \* self.expected_type (subscribers)
    hwm,             \* self.hwm
    socket,          \* self.socket: 0 is None, else an index into socks[a]
    ctx,             \* self.ctx: "None", "own" or a shared context
    running,         \* self._running (subscribers)
    seq_no,          \* self._seq_no (synchronous publisher)
    socks,           \* every socket the adapter ever created, in creation order
    ownctx,          \* term() count of every context the adapter created
    sharedTerm,      \* term() count of the shared contexts
    env,             \* the caller's message objects
    emitted,         \* frames handed to the transport, per adapter, in order
    iter,            \* where the consumer's iteration of a subscriber stands
    scope,           \* "out" or "in": inside a with / async with block
    exc,             \* the exception leaving the block, "none" if none
    last,            \* the last call made and how it ended
    inflight,        \* the socket a recv_string in progress was called on, or 0
    inbox,           \* the frames the transport holds for the adapter's sockets
    received,        \* the frames recv_string returned, per adapter, in order
    yielded,         \* the messages the iteration yielded, per adapter, in order
    sent,            \* the frames published to the endpoint, in order
    args,            \* the argument of a call of a module-level function
    ret              \* <<what that call returned>>, <<>> before it

vars == <<kind, is_own_context, is_bind, topics, expected_type, hwm, socket, ctx, running,
          seq_no, socks, ownctx, sharedTerm, env, emitted, iter, scope, exc, last,
          inflight, inbox, received, yielded, sent, args, ret>>

config == <<kind, is_own_context, is_bind, topics, expected_type, hwm>>
transport == <<socks, ownctx, sharedTerm>>
delivery == <<inbox, received, yielded, sent>>
function == <<args, ret>>

IsPub(a) == kind[a] \in {"pub", "apub"}
IsSub(a) == kind[a] \in {"sub", "asub"}
IsAsync(a) == kind[a] \in {"apub", "asub"}

\* The context objects a caller hands to an adapter of kind k.
ContextChoices(k) ==
    IF k \in {"apub", "asub"} THEN {"None", "AsyncContext"} ELSE {"None", "Context"}

\* A subscriber with no default: an empty list stays empty.
TopicsOrDefault_NoDefault(t) == t

\* topics or [""]: a topic is a str, a sequence of symbols, "" is <<>>.
TopicsOrDefault(t) == IF t = <<>> THEN << <<>> >> ELSE t

TopicChoices == {<<>>}

\* sequence_no: int = 0; DisplayMessage and MotorMessage have no such field (-1).
NewMessage(k, s) == [kind |-> k, sequence_no |-> IF k = "sensor" THEN s ELSE -1]

\* ctx.socket(...) followed by setsockopt(SNDHWM / RCVHWM, hwm)
NewSocket(c, h) ==
    [ctx |-> c, closed |-> 0, linger0 |-> FALSE, hwm |-> h,
     binds |-> 0, connects |-> 0, subs |-> 0]

\* expected_type: ExpectedMessageType = "auto"
ExpectedMessageType == {"auto", "sensor", "display", "motor"}

\* The adapter as its constructor leaves it, nothing sent or received yet,
\* given T, the topics arguments, E, the expected_type arguments, and H, the
\* hwm arguments.
ConstructedWith(T, E, H) ==
    /\ kind \in [Adapters -> Kinds]
    /\ hwm \in [Adapters -> H]
    /\ is_bind \in [Adapters -> BOOLEAN]
    /\ topics \in [Adapters -> {TopicsOrDefault(t) : t \in T}]
    /\ \A a \in Adapters : IsPub(a) => topics[a] = TopicsOrDefault(<<>>)
    /\ expected_type \in [Adapters -> E]
    /\ \A a \in Adapters : IsPub(a) => expected_type[a] = "auto"
    /\ inflight = [a \in Adapters |-> 0]
    /\ inbox = [a \in Adapters |-> <<>>]
    /\ received = [a \in Adapters |-> <<>>]
    /\ yielded = [a \in Adapters |-> <<>>]
    /\ sent = <<>>
    /\ ctx \in [Adapters -> {"None"} \cup SharedCtx]
    /\ \A a \in Adapters : ctx[a] \in ContextChoices(kind[a])
    /\ is_own_context = [a \in Adapters |-> ctx[a] = "None"]
    /\ socket = [a \in Adapters |-> 0]
    /\ running = [a \in Adapters |-> TRUE]
    /\ seq_no = [a \in Adapters |-> 0]
    /\ socks = [a \in Adapters |-> <<>>]
    /\ ownctx = [a \in Adapters |-> <<>>]
    /\ sharedTerm = [c \in SharedCtx |-> 0]
    /\ env = [e \in Envs |-> NewMessage("sensor", 0)]
    /\ emitted = [a \in Adapters |-> <<>>]
    /\ iter = [a \in Adapters |-> "idle"]
    /\ scope = [a \in Adapters |-> "out"]
    /\ exc = [a \in Adapters |-> "none"]
    /\ last \in {[a |-> a, op |-> "init", res |-> "ok", pre |-> "closed", sends |-> 0] :
                      a \in Adapters}

\* Constructed without an hwm argument: hwm: int = 1000
Constructed(T, E) == ConstructedWith(T, E, {1000})

Init == Constructed(TopicChoices, {"auto"}) /\ args = <<>> /\ ret = <<>>

(***************************************************************************)
(* Helpers over the adapter's fields.                                      *)
(***************************************************************************)

\* `self.socket and not self.socket.closed`
SocketLive(a) == socket[a] # 0 /\ socks[a][socket[a]].closed = 0

\* The context on which a setup would create its socket.
SetupCtx(a) == IF ctx[a] = "None" THEN "own" ELSE ctx[a]

\* ctx.socket() raises on a terminated context (only a shared one can be
\* terminated while an adapter still refers to it).
CtxTerminated(a) == ctx[a] \in SharedCtx /\ sharedTerm[ctx[a]] > 0

\* close() without the linger option.
LingerAndClose_NoLinger(s) == [s EXCEPT !.closed = @ + 1]

\* setsockopt(LINGER, 0); close()
LingerAndClose(s) == [s EXCEPT !.linger0 = TRUE, !.closed = @ + 1]

\* socket.bind(endpoint) or socket.connect(endpoint), by configuration
BindOrConnect(a, s) ==
    IF is_bind[a] THEN [s EXCEPT !.binds = @ + 1] ELSE [s EXCEPT !.connects = @ + 1]

\* What a call finds: a live socket, no socket but a context of the adapter's
\* own still open ("half"), or neither.
PreState(a) ==
    IF SocketLive(a) THEN "live"
    ELSE IF socket[a] = 0 /\ ctx[a] = "own" THEN "half"
    ELSE "closed"

\* The record of a call: the adapter, the operation, how it ended (ok or the
\* exception raised), what it found, and how many times it called the
\* transport's send_string.
ResultOfSend(a, op, res, n) ==
    last' = [a |-> a, op |-> op, res |-> res, pre |-> PreState(a), sends |-> n]

Result(a, op, res) == ResultOfSend(a, op, res, 0)

\* An exception raised by a call made inside a with block leaves the block
\* unless the caller catches it there.
Escapes(a, res, caught) ==
    exc' = [exc EXCEPT ![a] = IF scope[a] = "in" /\ res # "ok" /\ ~caught
                              THEN res ELSE "none"]

(***************************************************************************)
(* ZmqPublisher / AsyncZmqPublisher                                        *)
(***************************************************************************)

\* No early return.
PubAlreadyConnected_Never(a) == FALSE

\* The early return of _connect_impl.
PubAlreadyConnected(a) == SocketLive(a)

PubConnectRes(a, ok) ==
    IF PubAlreadyConnected(a) THEN "ok"
    ELSE IF CtxTerminated(a) THEN "ZMQError"
    ELSE IF ok THEN "ok" ELSE "ConnectionError"

\* _connect_impl: ok is whether the transport's bind/connect succeeds.
PubConnectImpl(a, ok) ==
    IF PubAlreadyConnected(a) \/ CtxTerminated(a)
    THEN UNCHANGED <<socket, ctx, socks, ownctx>>
    ELSE LET s0 == BindOrConnect(a, NewSocket(SetupCtx(a), hwm[a]))
             s1 == IF ok THEN s0 ELSE LingerAndClose(s0)
         IN /\ ownctx' = IF ctx[a] = "None"
                         THEN [ownctx EXCEPT ![a] = Append(@, 0)] ELSE ownctx
            /\ ctx' = [ctx EXCEPT ![a] = SetupCtx(a)]
            /\ socks' = [socks EXCEPT ![a] = Append(@, s1)]
            /\ socket' = [socket EXCEPT ![a] = IF ok THEN Len(socks[a]) + 1 ELSE 0]

(***************************************************************************)
(* close() of the four adapters                                            *)
(***************************************************************************)

\* The ownership test left out.
ShouldTerm_IgnoresOwnership(a) == ctx[a] # "None"

\* The ownership test inverted.
ShouldTerm_Inverted(a) == ctx[a] # "None" /\ ~is_own_context[a]

\* `if self.ctx and self.is_own_context`
ShouldTerm(a) == ctx[a] # "None" /\ is_own_context[a]

\* `if self.socket`
ShouldCloseSocket(a) == socket[a] # 0

\* A close() that closes and terminates but keeps its references.
CloseImpl_KeepsReferences(a) ==
    /\ running' = IF IsSub(a) THEN [running EXCEPT ![a] = FALSE] ELSE running
    /\ socks' = IF ShouldCloseSocket(a)
                THEN [socks EXCEPT ![a][socket[a]] = LingerAndClose(@)] ELSE socks
    /\ ownctx' = IF ShouldTerm(a) /\ ctx[a] = "own"
                 THEN [ownctx EXCEPT ![a][Len(ownctx[a])] = @ + 1] ELSE ownctx
    /\ sharedTerm' = IF ShouldTerm(a) /\ ctx[a] # "own"
                     THEN [sharedTerm EXCEPT ![ctx[a]] = @ + 1] ELSE sharedTerm
    /\ UNCHANGED <<socket, ctx>>

\* close(): the subscribers clear _running first; the rest is the same code.
CloseImpl(a) ==
    /\ running' = IF IsSub(a) THEN [running EXCEPT ![a] = FALSE] ELSE running
    /\ socks' = IF ShouldCloseSocket(a)
                THEN [socks EXCEPT ![a][socket[a]] = LingerAndClose(@)] ELSE socks
    /\ socket' = IF ShouldCloseSocket(a) THEN [socket EXCEPT ![a] = 0] ELSE socket
    /\ IF ShouldTerm(a)
       THEN /\ ctx' = [ctx EXCEPT ![a] = "None"]
            /\ IF ctx[a] = "own"
               THEN /\ ownctx' = [ownctx EXCEPT ![a][Len(ownctx[a])] = @ + 1]
                    /\ UNCHANGED sharedTerm
               ELSE /\ sharedTerm' = [sharedTerm EXCEPT ![ctx[a]] = @ + 1]
                    /\ UNCHANGED ownctx
       ELSE UNCHANGED <<ctx, ownctx, sharedTerm>>

(***************************************************************************)
(* ZmqSubscriber / AsyncZmqSubscriber                                      *)
(***************************************************************************)

\* `if not self.socket or self.socket.closed`: connect() creates a socket.
SubCreatesSocket(a) == ~SocketLive(a)

\* f is where the transport fails inside the try block: 0 at bind/connect,
\* i at the i-th subscribe, Len(topics) + 1 nowhere.
SubSetupOk(a, f) == f > Len(topics[a])

SubConnectRes(a, f) ==
    IF SubCreatesSocket(a) /\ CtxTerminated(a) THEN "ZMQError"
    ELSE IF SubSetupOk(a, f) THEN "ok" ELSE "ConnectionError"

\* connect() of both subscribers.
SubConnectImpl(a, f) ==
    IF SubCreatesSocket(a) /\ CtxTerminated(a)
    THEN UNCHANGED <<socket, ctx, socks, ownctx>>
    ELSE LET n == Len(topics[a])
             create == SubCreatesSocket(a)
             idx == IF create THEN Len(socks[a]) + 1 ELSE socket[a]
             s0 == IF create THEN NewSocket(SetupCtx(a), hwm[a]) ELSE socks[a][socket[a]]
             s1 == BindOrConnect(a, s0)
             s2 == [s1 EXCEPT !.subs = @ + (IF f > n THEN n ELSE f)]
             s3 == IF SubSetupOk(a, f) THEN s2 ELSE LingerAndClose(s2)
         IN /\ ownctx' = IF create /\ ctx[a] = "None"
                         THEN [ownctx EXCEPT ![a] = Append(@, 0)] ELSE ownctx
            /\ ctx' = IF create THEN [ctx EXCEPT ![a] = SetupCtx(a)] ELSE ctx
            /\ socks' = IF create THEN [socks EXCEPT ![a] = Append(@, s3)]
                        ELSE [socks EXCEPT ![a][idx] = s3]
            /\ socket' = [socket EXCEPT ![a] = IF SubSetupOk(a, f) THEN idx ELSE 0]

(***************************************************************************)
(* Sending                                                                 *)
(***************************************************************************)

\* A send_raw without the connection check.
SendRawRes_NoConnectionCheck(a, isstr, tok) ==
    IF ~isstr THEN "TypeError"
    ELSE IF tok THEN "ok" ELSE "ZMQError"

\* A send_raw that checks the connection before the type of the payload.
SendRawRes_ConnectionCheckFirst(a, isstr, tok) ==
    IF socket[a] = 0 THEN "ConnectionError"
    ELSE IF ~isstr THEN "TypeError"
    ELSE IF tok THEN "ok" ELSE "ZMQError"

\* send_raw of both publishers: the type check, the connection check, the
\* transport's send_string (tok: whether it succeeds).
SendRawRes(a, isstr, tok) ==
    IF ~isstr THEN "TypeError"
    ELSE IF socket[a] = 0 THEN "ConnectionError"
    ELSE IF tok THEN "ok" ELSE "ZMQError"

\* send_string is called once the two checks have passed.
SendRawAttempts(a, isstr) == IF isstr /\ socket[a] # 0 THEN 1 ELSE 0

\* An `except` clause that logs and returns instead of raising.
Reraise_Swallows(err) == "ok"

\* `except Exception as e: logger.error(...); raise`
Reraise(err) == err

\* send of both publishers: msg.model_dump_json() (enc: whether it
\* succeeds), then one send_raw of the encoded message.
SendRes(a, enc, tok) ==
    IF ~enc THEN Reraise("EncodeError") ELSE Reraise(SendRawRes(a, TRUE, tok))

\* send_raw is reached only with an encoded message, and called once.
SendAttempts(a, enc, tok) == IF enc THEN SendRawAttempts(a, TRUE) ELSE 0

\* A send that counts every call as handed over.
Handed_Always(a, enc, tok) == TRUE

\* send_raw returned: the frame is with the transport.
Handed(a, enc, tok) == enc /\ SendRawRes(a, TRUE, tok) = "ok"

\* A frame: the call that emitted it, the sequence_no it carries (-1: none)
\* and whether the message came in with sequence_no left at 0.
RawFrame == [via |-> "send_raw", seq |-> -1, zero |-> FALSE]

\* The caller left the message's sequence_no at the zero sentinel.
LeftAtZero(e) == env[e].kind = "sensor" /\ env[e].sequence_no = 0

\* `hasattr(msg, "sequence_no") and msg.sequence_no == 0`
AutoAssign(e) == env[e].kind = "sensor" /\ env[e].sequence_no = 0

\* msg.sequence_no as BasePublisher.send leaves it before encoding.
SyncAssigned(a, e) == IF AutoAssign(e) THEN seq_no[a] ELSE env[e].sequence_no

\* msg.sequence_no as AsyncBasePublisher.send encodes it.
AsyncAssigned(a, e) == env[e].sequence_no

\* A counter that wraps instead of growing.
SeqAfterSend_Wraps(a) == (seq_no[a] + 1) % 2

\* A counter that is never advanced.
SeqAfterSend_Stuck(a) == seq_no[a]

\* The counter after a successful send_raw in BasePublisher.send.
SeqAfterSend(a) == seq_no[a] + 1

\* BasePublisher.send
SyncSendImpl(a, e, enc, tok) ==
    LET f == [via |-> "send", seq |-> SyncAssigned(a, e), zero |-> LeftAtZero(e)]
    IN /\ env' = [env EXCEPT ![e].sequence_no = SyncAssigned(a, e)]
       /\ emitted' = IF Handed(a, enc, tok)
                     THEN [emitted EXCEPT ![a] = Append(@, f)] ELSE emitted
       /\ seq_no' = IF Handed(a, enc, tok)
                    THEN [seq_no EXCEPT ![a] = SeqAfterSend(a)] ELSE seq_no

\* AsyncBasePublisher.send
AsyncSendImpl(a, e, enc, tok) ==
    LET f == [via |-> "send", seq |-> AsyncAssigned(a, e), zero |-> LeftAtZero(e)]
    IN /\ UNCHANGED env
       /\ emitted' = IF Handed(a, enc, tok)
                     THEN [emitted EXCEPT ![a] = Append(@, f)] ELSE emitted
       /\ UNCHANGED seq_no

(***************************************************************************)
(* Text.  A str is a sequence of symbols: "{", "}", the whitespace " " and *)
(* "\t", and symbols that stand for a run of other characters (a topic     *)
(* name, the fields of a message).                                         *)
(***************************************************************************)

\* What str.lstrip() / str.strip() and the JSON parser take for whitespace.
Whitespace == {" ", "\t"}

\* str.lstrip()
RECURSIVE LStrip(_)
LStrip(x) == IF x # <<>> /\ Head(x) \in Whitespace THEN LStrip(Tail(x)) ELSE x

\* str.startswith("{")
StartsWithBrace(x) == x # <<>> /\ Head(x) = "{"

\* str.startswith(t)
IsPrefix(t, x) == Len(t) <= Len(x) /\ SubSeq(x, 1, Len(t)) = t

\* The index of the first " " of x, 0 if it has none.
RECURSIVE FirstSpace(_, _)
FirstSpace(x, i) ==
    IF i > Len(x) THEN 0 ELSE IF x[i] = " " THEN i ELSE FirstSpace(x, i + 1)

\* raw_msg.split(" ", 1): one part if raw_msg has no space, else the parts
\* before and after its first space.
SplitOnce(x) ==
    LET i == FirstSpace(x, 1)
    IN IF i = 0 THEN <<x>> ELSE <<SubSeq(x, 1, i - 1), SubSeq(x, i + 1, Len(x))>>

\* An unwrap that strips the part it returns.
Unwrap_StripsPayload(raw_msg) ==
    IF StartsWithBrace(LStrip(raw_msg)) THEN raw_msg
    ELSE LET topic_and_payload == SplitOnce(raw_msg)
         IN IF Len(topic_and_payload) = 2 /\ StartsWithBrace(LStrip(topic_and_payload[2]))
            THEN LStrip(topic_and_payload[2])
            ELSE raw_msg

\* An unwrap that splits at the first space whatever precedes it.
Unwrap_AlwaysSplits(raw_msg) ==
    LET topic_and_payload == SplitOnce(raw_msg)
    IN IF Len(topic_and_payload) = 2 /\ StartsWithBrace(LStrip(topic_and_payload[2]))
       THEN topic_and_payload[2]
       ELSE raw_msg

\* _unwrap_topic_prefixed_payload
Unwrap(raw_msg) ==
    IF StartsWithBrace(LStrip(raw_msg)) THEN raw_msg
    ELSE LET topic_and_payload == SplitOnce(raw_msg)
         IN IF Len(topic_and_payload) = 2 /\ StartsWithBrace(LStrip(topic_and_payload[2]))
            THEN topic_and_payload[2]
            ELSE raw_msg

(***************************************************************************)
(* JSON documents and the models of schemas.py                             *)
(*                                                                         *)
(* A JSON value is a record tagged with its type; an object carries the    *)
(* record of its members.  A number with a fraction is counted in          *)
(* hundredths (25.25 is 2525).  On the Python side an Optional is <<>>     *)
(* for None and <<v>> for a value, a float is counted in hundredths, and   *)
(* a validation returns the set of its results, empty when it raises; a    *)
(* result carries the value, whether a conversion outside strict mode was  *)
(* needed (lax), and for a model the number of fields the input set (n),   *)
(* those of nested models included: the two measures by which pydantic     *)
(* chooses among the members of a union.                                   *)
(***************************************************************************)

JStr(s) == [t |-> "str", s |-> s]
JInt(i) == [t |-> "int", i |-> i]
JFloat(h) == [t |-> "float", h |-> h]
JBool(b) == [t |-> "bool", b |-> b]
JNull == [t |-> "null"]
JObj(o) == [t |-> "obj", o |-> o]

Has(o, k) == k \in DOMAIN o

Only(S) == CHOOSE r \in S : TRUE

Strict(v) == {[v |-> v, lax |-> FALSE]}
Lax(v) == {[v |-> v, lax |-> TRUE]}

\* datetime values: the minute, as strftime("%Y-%m-%d %H:%M") writes it, and
\* the seconds.  datetime.now(), the default of a timestamp, is the minute
\* "now".
Datetimes == [minute : {"2025-12-31 23:59"}, second : {0, 30}]

\* dt.strftime("%Y-%m-%d %H:%M")
Strftime(dt) == dt.minute

\* The ISO 8601 text pydantic writes for a datetime without a serializer.
IsoFormat(dt) ==
    IF dt.second = 0 THEN "2025-12-31T23:59:00" ELSE "2025-12-31T23:59:30"

\* The numeric strs among the inputs.
IntOfStr == ("1" :> 1) @@ ("2" :> 2)

\* str
ValidateStr(x) == IF x.t = "str" THEN Strict(x.s) ELSE {}

\* int: outside strict mode also a numeric str and a float without fraction.
ValidateInt(x) ==
    IF x.t = "int" THEN Strict(x.i)
    ELSE IF x.t = "str" /\ x.s \in DOMAIN IntOfStr THEN Lax(IntOfStr[x.s])
    ELSE IF x.t = "float" /\ x.h % 100 = 0 THEN Lax(x.h \div 100)
    ELSE {}

\* bool: outside strict mode also 0, 1 and the strs "true", "false".
ValidateBool(x) ==
    IF x.t = "bool" THEN Strict(x.b)
    ELSE IF x.t = "int" /\ x.i \in {0, 1} THEN Lax(x.i = 1)
    ELSE IF x.t = "str" /\ x.s \in {"true", "false"} THEN Lax(x.s = "true")
    ELSE {}

\* float, in hundredths: an int is a float also in strict mode.
ValidateFloat(x) ==
    IF x.t = "int" THEN Strict(x.i * 100)
    ELSE IF x.t = "float" THEN Strict(x.h)
    ELSE IF x.t = "str" /\ x.s \in DOMAIN IntOfStr THEN Lax(IntOfStr[x.s] * 100)
    ELSE {}

\* float | None = Field(default=None, ge=0.0, le=100.0)
ValidatePossibility(x) ==
    IF x.t = "null" THEN Strict(<<>>)
    ELSE {[v |-> <<r.v>>, lax |-> r.lax] :
             r \in {r \in ValidateFloat(x) : 0 <= r.v /\ r.v <= 10000}}

\* datetime, from a str in ISO 8601 with "T" or " ", the seconds optional
ValidateDatetime(x) ==
    IF x.t = "str"
    THEN {[v |-> dt, lax |-> FALSE] :
             dt \in {dt \in Datetimes :
                        x.s = IsoFormat(dt) \/ (dt.second = 0 /\ x.s = Strftime(dt))}}
    ELSE {}

\* The members from rs on, given the best match so far: a match replaces it
\* if it sets more fields, or as many and is exact where the other is not.
RECURSIVE SmartFrom(_, _)
SmartFrom(rs, best) ==
    IF rs = <<>> THEN best
    ELSE SmartFrom(Tail(rs),
                   IF Head(rs) = {} THEN best
                   ELSE IF best = {} THEN Head(rs)
                   ELSE LET new == Only(Head(rs))
                            cur == Only(best)
                        IN IF (IF cur.n # new.n THEN cur.n < new.n ELSE cur.lax /\ ~new.lax)
                           THEN Head(rs) ELSE best)

\* A union whose last matching member wins.
RECURSIVE SmartUnion_LastMatch(_)
SmartUnion_LastMatch(rs) ==
    IF rs = <<>> THEN {}
    ELSE IF SmartUnion_LastMatch(Tail(rs)) # {} THEN SmartUnion_LastMatch(Tail(rs))
    ELSE Head(rs)

\* A | B | ... validated in pydantic's default (smart) mode: every member is
\* tried, left to right, and the best match is returned; the first of equals.
\* rs are the results of the members, in declared order.
SmartUnion(rs) == SmartFrom(rs, {})

\* SensorPayload
ValidateSensorPayload(x) ==
    IF x.t # "obj" THEN {}
    ELSE IF ~({"isThereHuman", "sensor_status", "sensor_status_code"} \subseteq DOMAIN x.o)
    THEN {}
    ELSE {[value |-> [variant |-> "SensorPayload",
                      isThereHuman |-> a.v,
                      human_exist_possibility |-> h.v,
                      sensor_status |-> s.v,
                      sensor_status_code |-> c.v],
           lax |-> a.lax \/ h.lax \/ s.lax \/ c.lax,
           n |-> Cardinality(DOMAIN x.o \cap {"isThereHuman", "human_exist_possibility",
                                                  "sensor_status", "sensor_status_code"})] :
             a \in ValidateBool(x.o.isThereHuman),
             h \in IF Has(x.o, "human_exist_possibility")
                   THEN ValidatePossibility(x.o.human_exist_possibility)
                   ELSE Strict(<<>>),
             s \in ValidateStr(x.o.sensor_status),
             c \in ValidateInt(x.o.sensor_status_code)}

\* HeartBeatPayload
ValidateHeartBeatPayload(x) ==
    IF x.t # "obj" THEN {}
    ELSE IF ~({"status", "status_code"} \subseteq DOMAIN x.o) THEN {}
    ELSE {[value |-> [variant |-> "HeartBeatPayload",
                      status |-> s.v,
                      status_code |-> c.v],
           lax |-> s.lax \/ c.lax,
           n |-> 2] :
             s \in ValidateStr(x.o.status),
             c \in ValidateInt(x.o.status_code)}

\* payload: SensorPayload | HeartBeatPayload
ValidatePayload(x) == SmartUnion(<<ValidateSensorPayload(x), ValidateHeartBeatPayload(x)>>)

\* SensorMessage
ValidateSensorMessage(o) ==
    IF ~({"sender_id", "sender_name", "data_type", "payload"} \subseteq DOMAIN o) THEN {}
    ELSE {[value |-> [kind |-> "sensor",
                      sender_id |-> i.v,
                      sender_name |-> nm.v,
                      timestamp |-> ts.v,
                      data_type |-> dt.v,
                      payload |-> p.value,
                      sequence_no |-> sq.v],
           lax |-> i.lax \/ nm.lax \/ ts.lax \/ dt.lax \/ p.lax \/ sq.lax,
           n |-> Cardinality(DOMAIN o \cap {"sender_id", "sender_name", "timestamp", "data_type",
                                            "payload", "sequence_no"}) + p.n] :
             i \in ValidateStr(o.sender_id),
             nm \in IF o.sender_name.t = "null" THEN Strict(<<>>)
                    ELSE {[v |-> <<r.v>>, lax |-> r.lax] : r \in ValidateStr(o.sender_name)},
             ts \in IF Has(o, "timestamp") THEN ValidateDatetime(o.timestamp) ELSE Strict([minute |-> "now", second |-> 0]),
             dt \in ValidateStr(o.data_type),
             p \in ValidatePayload(o.payload),
             sq \in IF Has(o, "sequence_no") THEN ValidateInt(o.sequence_no) ELSE Strict(0)}

\* SensorDisplayMode
ValidateSensorDisplayMode(x) ==
    IF x.t # "obj" THEN {}
    ELSE IF ~({"sensor_name", "is_there_human"} \subseteq DOMAIN x.o) THEN {}
    ELSE {[value |-> [sensor_name |-> s.v,
                      is_there_human |-> a.v,
                      human_exist_possibility |-> h.v],
           lax |-> s.lax \/ a.lax \/ h.lax,
           n |-> Cardinality(DOMAIN x.o \cap {"sensor_name", "is_there_human",
                                                  "human_exist_possibility"})] :
             s \in ValidateStr(x.o.sensor_name),
             a \in ValidateBool(x.o.is_there_human),
             h \in IF Has(x.o, "human_exist_possibility")
                   THEN ValidatePossibility(x.o.human_exist_possibility)
                   ELSE Strict(<<>>)}

RECURSIVE SumOfFieldsSet(_, _)
SumOfFieldsSet(o, ks) ==
    IF ks = {} THEN 0
    ELSE LET k == CHOOSE k \in ks : TRUE
         IN Only(ValidateSensorDisplayMode(o[k])).n + SumOfFieldsSet(o, ks \ {k})

\* dict[str, SensorDisplayMode]: the entries, each with the slot it is under.
ValidateDisplayDict(x) ==
    IF x.t # "obj" THEN {}
    ELSE IF \E k \in DOMAIN x.o : ValidateSensorDisplayMode(x.o[k]) = {} THEN {}
    ELSE {[v |-> {[slot |-> k, mode |-> Only(ValidateSensorDisplayMode(x.o[k])).value] :
                     k \in DOMAIN x.o},
           lax |-> \E k \in DOMAIN x.o : Only(ValidateSensorDisplayMode(x.o[k])).lax,
           n |-> SumOfFieldsSet(x.o, DOMAIN x.o)]}

\* DisplayMessage
ValidateDisplayMessage(o) ==
    IF ~({"sender_id", "is_override_mode", "moter_mode"} \subseteq DOMAIN o) THEN {}
    ELSE {[value |-> [kind |-> "display",
                      sender_id |-> i.v,
                      timestamp |-> ts.v,
                      is_override_mode |-> ov.v,
                      sensor_display_dict |-> d.v,
                      moter_mode |-> mm.v],
           lax |-> i.lax \/ ts.lax \/ ov.lax \/ d.lax \/ mm.lax,
           n |-> Cardinality(DOMAIN o \cap {"sender_id", "timestamp", "is_override_mode",
                                            "sensor_display_dict", "moter_mode"}) + d.n] :
             i \in ValidateStr(o.sender_id),
             ts \in IF Has(o, "timestamp") THEN ValidateDatetime(o.timestamp) ELSE Strict([minute |-> "now", second |-> 0]),
             ov \in ValidateBool(o.is_override_mode),
             d \in IF Has(o, "sensor_display_dict")
                   THEN ValidateDisplayDict(o.sensor_display_dict)
                   ELSE {[v |-> {}, lax |-> FALSE, n |-> 0]},
             mm \in ValidateStr(o.moter_mode)}

\* MotorMessage
ValidateMotorMessage(o) ==
    IF ~({"sender_id", "is_override_mode", "ordered_mode"} \subseteq DOMAIN o) THEN {}
    ELSE {[value |-> [kind |-> "motor",
                      sender_id |-> i.v,
                      timestamp |-> ts.v,
                      is_override_mode |-> ov.v,
                      ordered_mode |-> om.v],
           lax |-> i.lax \/ ts.lax \/ ov.lax \/ om.lax,
           n |-> Cardinality(DOMAIN o \cap {"sender_id", "timestamp", "is_override_mode",
                                            "ordered_mode"})] :
             i \in ValidateStr(o.sender_id),
             ts \in IF Has(o, "timestamp") THEN ValidateDatetime(o.timestamp) ELSE Strict([minute |-> "now", second |-> 0]),
             ov \in ValidateBool(o.is_override_mode),
             om \in ValidateStr(o.ordered_mode)}

\* The TypeAdapter of class k, applied to the object a JSON text denotes.
ValidateMessage(o, k) ==
    CASE k = "sensor" -> ValidateSensorMessage(o)
      [] k = "display" -> ValidateDisplayMessage(o)
      [] k = "motor" -> ValidateMotorMessage(o)

\* _supported_message_adapter: SensorMessage | DisplayMessage | MotorMessage
ValidateSupportedMessage(o) ==
    SmartUnion(<<ValidateMessage(o, "sensor"), ValidateMessage(o, "display"),
                 ValidateMessage(o, "motor")>>)

\* A parse that tries the union when the class expected_type names refuses
\* the object.
ParseMessageObject_FallsBack(o, expected) ==
    IF expected = "auto" \/ ValidateMessage(o, expected) = {}
    THEN {r.value : r \in ValidateSupportedMessage(o)}
    ELSE {r.value : r \in ValidateMessage(o, expected)}

\* parse_message_json on the object its argument denotes: the messages
\* returned, none when validate_json raises.
ParseMessageObject(o, expected) ==
    IF expected = "auto" THEN {r.value : r \in ValidateSupportedMessage(o)}
    ELSE {r.value : r \in ValidateMessage(o, expected)}

\* A get_status that returns the text before the code.
GetStatus_TextFirst(m) ==
    IF m.payload.variant = "SensorPayload"
    THEN <<[str |-> m.payload.sensor_status], [int |-> m.payload.sensor_status_code]>>
    ELSE <<[str |-> m.payload.status], [int |-> m.payload.status_code]>>

\* SensorMessage.get_status: the tuple returned, each value under its type.
GetStatus(m) ==
    IF m.payload.variant = "SensorPayload"
    THEN <<[int |-> m.payload.sensor_status_code], [str |-> m.payload.sensor_status]>>
    ELSE IF m.payload.variant = "HeartBeatPayload"
    THEN <<[int |-> m.payload.status_code], [str |-> m.payload.status]>>
    ELSE <<[raises |-> "NotImplementedError"]>>

\* msg.model_dump_json(), as the object written: every field of the class;
\* the timestamp of a SensorMessage through serialize_timestamp, that of a
\* DisplayMessage or MotorMessage in ISO 8601.
ModelDumpJson(m) ==
    LET DumpPossibility(h) == IF h = <<>> THEN JNull ELSE JFloat(h[1])
        DumpPayload(p) ==
            IF p.variant = "SensorPayload"
            THEN JObj([isThereHuman |-> JBool(p.isThereHuman),
                       human_exist_possibility |-> DumpPossibility(p.human_exist_possibility),
                       sensor_status |-> JStr(p.sensor_status),
                       sensor_status_code |-> JInt(p.sensor_status_code)])
            ELSE JObj([status |-> JStr(p.status), status_code |-> JInt(p.status_code)])
        DumpMode(e) ==
            JObj([sensor_name |-> JStr(e.sensor_name),
                  is_there_human |-> JBool(e.is_there_human),
                  human_exist_possibility |-> DumpPossibility(e.human_exist_possibility)])
        DumpDisplayDict(d) ==
            JObj([k \in {e.slot : e \in d} |-> DumpMode((CHOOSE e \in d : e.slot = k).mode)])
    IN
    CASE m.kind = "sensor" ->
            [sender_id |-> JStr(m.sender_id),
             sender_name |-> IF m.sender_name = <<>> THEN JNull ELSE JStr(m.sender_name[1]),
             timestamp |-> JStr(Strftime(m.timestamp)),
             data_type |-> JStr(m.data_type),
             payload |-> DumpPayload(m.payload),
             sequence_no |-> JInt(m.sequence_no)]
      [] m.kind = "display" ->
            [sender_id |-> JStr(m.sender_id),
             timestamp |-> JStr(IsoFormat(m.timestamp)),
             is_override_mode |-> JBool(m.is_override_mode),
             sensor_display_dict |-> DumpDisplayDict(m.sensor_display_dict),
             moter_mode |-> JStr(m.moter_mode)]
      [] m.kind = "motor" ->
            [sender_id |-> JStr(m.sender_id),
             timestamp |-> JStr(IsoFormat(m.timestamp)),
             is_override_mode |-> JBool(m.is_override_mode),
             ordered_mode |-> JStr(m.ordered_mode)]

(***************************************************************************)
(* Messages on the wire                                                    *)
(***************************************************************************)

\* The publishers of one endpoint, by the sender_id of their messages, and
\* the topic each was configured with: ZmqPubOptions(endpoint, topic=...).
Peers == {"pub_a", "pub_b", "pub_c"}

PeerTopic(p) ==
    CASE p = "pub_a" -> <<"sensor">>
      [] p = "pub_b" -> <<"displayHB">>
      [] p = "pub_c" -> <<>>

\* The kind of message each of them sends.
PeerKind(p) == IF p = "pub_b" THEN "display" ELSE "sensor"

\* The message of class k that publisher p sends.
MessageOf(k, p) ==
    CASE k = "sensor" ->
            [kind |-> "sensor", sender_id |-> p, sender_name |-> <<>>,
             timestamp |-> [minute |-> "2025-12-31 23:59", second |-> 0],
             data_type |-> "sensor",
             payload |-> [variant |-> "SensorPayload", isThereHuman |-> TRUE,
                          human_exist_possibility |-> <<2525>>,
                          sensor_status |-> "ok", sensor_status_code |-> 1],
             sequence_no |-> 0]
      [] k = "display" ->
            [kind |-> "display", sender_id |-> p,
             timestamp |-> [minute |-> "2025-12-31 23:59", second |-> 0],
             is_override_mode |-> FALSE, sensor_display_dict |-> {}, moter_mode |-> "m"]
      [] k = "motor" ->
            [kind |-> "motor", sender_id |-> p,
             timestamp |-> [minute |-> "2025-12-31 23:59", second |-> 0],
             is_override_mode |-> FALSE, ordered_mode |-> "m"]

Messages == {MessageOf(k, p) : k \in MsgKinds, p \in Peers}

ClassOf(k) ==
    CASE k = "sensor" -> "SensorMessage"
      [] k = "display" -> "DisplayMessage"
      [] k = "motor" -> "MotorMessage"

\* msg.model_dump_json(), as the text written: an object, so it begins with
\* "{"; the fields of the message's class; the timestamp of a SensorMessage
\* is written "%Y-%m-%d %H:%M", with a space.
Encode(m) ==
    <<"{", m.sender_id, ClassOf(m.kind)>> \o (IF m.kind = "sensor" THEN <<" ">> ELSE <<>>)
        \o <<"}">>

\* str.rstrip()
RECURSIVE RStrip(_)
RStrip(x) ==
    IF x # <<>> /\ x[Len(x)] \in Whitespace THEN RStrip(SubSeq(x, 1, Len(x) - 1)) ELSE x

\* parse_message_json on a str: on the object json_str denotes, none if it
\* is not JSON (validate_json raises).  A JSON text may have whitespace
\* around it.
ParseMessageJson(json_str, expected) ==
    UNION {ParseMessageObject(ModelDumpJson(m), expected) :
              m \in {m \in Messages : Encode(m) = RStrip(LStrip(json_str))}}

\* The frame a publisher configured with topic t hands to the transport for
\* a message encoded as j: ZmqPubOptions has no topic field, so the keyword
\* is dropped, and send() passes model_dump_json() to send_raw as it is.
PubFrame(t, j) == j

\* The prefixes subscribed on the adapter's live socket.
Subscribed(a) ==
    IF IsSub(a) /\ SocketLive(a)
    THEN {topics[a][i] : i \in {i \in 1 .. Len(topics[a]) : i <= socks[a][socket[a]].subs}}
    ELSE {}

\* A SUB socket takes the frames that begin with a subscribed prefix.
Accepts(a, x) == \E t \in Subscribed(a) : IsPrefix(t, x)

\* The socket of each adapter that is open at the endpoint, 0 for none.
LiveSockets == [a \in Adapters |-> IF IsSub(a) /\ SocketLive(a) THEN socket[a] ELSE 0]

\* The frames the transport holds for socket i of the adapter.
Queue(a, i) == SelectSeq(inbox[a], LAMBDA e : e.sock = i)

\* Those of them that publisher p sent: the frames on the way from p to the
\* adapter's socket.
Pipe(a, p) == SelectSeq(Queue(a, socket[a]), LAMBDA e : e.from = p)

\* The frames the way from a publisher to the adapter's socket can hold: the
\* SNDHWM of the publisher's socket and the RCVHWM of the subscriber's; the
\* publishers of the endpoint are given the hwm of the subscriber.
Capacity(a) == socks[a][socket[a]].hwm + hwm[a]

Full(a, p) == SocketLive(a) /\ Len(Pipe(a, p)) >= Capacity(a)

\* A send_string that fails when the frame cannot be queued for a subscriber.
SendStringRes_Again(full) == IF full THEN "Again" ELSE "ok"

\* self.socket.send_string(data) on a PUB socket: it returns, whether or not
\* the frame can be queued for every subscriber.
SendStringRes(full) == "ok"

\* A frame x from p reaches the endpoint: it is queued on the sockets that
\* take it and have room for it, and dropped for the others.
Publish(p, x) ==
    /\ sent' = Append(sent, [from |-> p, frame |-> x, live |-> LiveSockets,
                             res |-> SendStringRes(\E a \in Adapters :
                                                      Accepts(a, x) /\ Full(a, p)),
                             to |-> [a \in Adapters |->
                                       IF Accepts(a, x) /\ ~Full(a, p)
                                       THEN socket[a] ELSE 0]])
    /\ inbox' = [a \in Adapters |->
                    IF Accepts(a, x) /\ ~Full(a, p)
                    THEN Append(inbox[a], [frame |-> x, sock |-> socket[a], from |-> p,
                                           no |-> Len(sent) + 1])
                    ELSE inbox[a]]
    /\ UNCHANGED <<received, yielded>>

SentBy(p) == SelectSeq(sent, LAMBDA e : e.from = p)

Published(x) == \E i \in 1 .. Len(sent) : sent[i].frame = x

\* One of the publishers sends its message: AsyncBasePublisher.send.
PeerSend(p) ==
    /\ SentBy(p) = <<>>
    /\ Publish(p, PubFrame(PeerTopic(p), Encode(MessageOf(PeerKind(p), p))))
    /\ UNCHANGED <<config, socket, ctx, running, seq_no, transport, env, emitted, iter, scope,
                   exc, last, inflight, function>>

\* Frames put on the wire as they are (send_raw): a message behind a topic
\* and a space.
RawFrames ==
    {<<"sensor", " ">> \o Encode(MessageOf("sensor", "pub_a"))}

\* A publisher sends its message again and again.
PeerBurst(p) ==
    /\ Len(SentBy(p)) < MaxSends
    /\ Publish(p, PubFrame(PeerTopic(p), Encode(MessageOf(PeerKind(p), p))))
    /\ UNCHANGED <<config, socket, ctx, running, seq_no, transport, env, emitted, iter, scope,
                   exc, last, inflight, function>>

\* Each of them is sent once.
PeerSendRaw(x) ==
    /\ ~Published(x)
    /\ Publish("raw", x)
    /\ UNCHANGED <<config, socket, ctx, running, seq_no, transport, env, emitted, iter, scope,
                   exc, last, inflight, function>>

\* What a pass of the loop makes of frame x: unwrap, then parse.
FrameOutcome(a, x) ==
    IF ParseMessageJson(Unwrap(x), expected_type[a]) # {} THEN "frame" ELSE "garbage"

(***************************************************************************)
(* Calls                                                                   *)
(***************************************************************************)

\* No call is made on an adapter while an exception is leaving its block.
Callable(a) == exc[a] = "none"

\* The bind/connect calls the adapter has issued so far, on all its sockets.
RECURSIVE BindCalls(_)
BindCalls(ss) ==
    IF ss = <<>> THEN 0
    ELSE Head(ss).binds + Head(ss).connects + BindCalls(Tail(ss))

\* A setup that is not an early return issues one more bind/connect.
SetupBound(a) ==
    (IsPub(a) /\ SocketLive(a)) \/ BindCalls(socks[a]) < MaxSetups

FailPoints(a) == 0 .. (Len(topics[a]) + 1)

\* The setup of the adapter's class, failing at f (a publisher's only
\* failure point is its bind/connect).
SetupImpl(a, f) == IF IsPub(a) THEN PubConnectImpl(a, f # 0) ELSE SubConnectImpl(a, f)

SetupRes(a, f) == IF IsPub(a) THEN PubConnectRes(a, f # 0) ELSE SubConnectRes(a, f)

\* BasePublisher.connect / AsyncBasePublisher.connect / the subscribers' connect
Connect(a, f, caught) ==
    /\ Callable(a) /\ SetupBound(a)
    /\ IsPub(a) => f \in {0, 1}
    /\ SetupImpl(a, f)
    /\ Result(a, "connect", SetupRes(a, f))
    /\ Escapes(a, SetupRes(a, f), caught)
    /\ UNCHANGED <<config, running, seq_no, sharedTerm, env, emitted, iter, scope, delivery, inflight, function>>

Close(a, caught) ==
    /\ Callable(a)
    /\ CloseImpl(a)
    /\ Result(a, "close", "ok")
    /\ Escapes(a, "ok", caught)
    /\ UNCHANGED <<config, seq_no, env, emitted, iter, scope, delivery, inflight, function>>

\* The caller builds a message, leaving sequence_no at 0 or presetting it.
BuildMessage(e, k, s) ==
    /\ k = "sensor" \/ s = 0
    /\ env' = [env EXCEPT ![e] = NewMessage(k, s)]
    /\ last' = [last EXCEPT !.op = "build", !.res = "ok", !.pre = "n/a", !.sends = 0]
    /\ UNCHANGED <<config, socket, ctx, running, seq_no, transport, emitted, iter, scope, exc, delivery, inflight, function>>

Send(a, e, enc, tok, caught) ==
    /\ IsPub(a) /\ Callable(a) /\ Len(emitted[a]) < MaxSends
    /\ IF kind[a] = "pub" THEN SyncSendImpl(a, e, enc, tok) ELSE AsyncSendImpl(a, e, enc, tok)
    /\ ResultOfSend(a, "send", SendRes(a, enc, tok), SendAttempts(a, enc, tok))
    /\ Escapes(a, SendRes(a, enc, tok), caught)
    /\ UNCHANGED <<config, socket, ctx, running, transport, iter, scope, delivery, inflight, function>>

SendRaw(a, isstr, tok, caught) ==
    /\ IsPub(a) /\ Callable(a) /\ Len(emitted[a]) < MaxSends
    /\ emitted' = IF SendRawRes(a, isstr, tok) = "ok"
                  THEN [emitted EXCEPT ![a] = Append(@, RawFrame)] ELSE emitted
    /\ ResultOfSend(a, "send_raw", SendRawRes(a, isstr, tok), SendRawAttempts(a, isstr))
    /\ Escapes(a, SendRawRes(a, isstr, tok), caught)
    /\ UNCHANGED <<config, socket, ctx, running, seq_no, transport, env, iter, scope, delivery, inflight, function>>

(***************************************************************************)
(* Iterating a subscriber: __iter__ / __aiter__                            *)
(***************************************************************************)

\* `while self._running`: the loop goes on to receive, or the generator ends.
LoopCheck(a) == IF running[a] THEN "recv" ELSE "done"

\* The consumer starts iterating: the generator runs up to its first
\* recv_string, through `if not self.socket or self.socket.closed: connect()`.
IterStart(a, f, caught) ==
    /\ IsSub(a) /\ Callable(a) /\ iter[a] \in {"idle", "done", "raised"}
    /\ IF SocketLive(a)
       THEN /\ UNCHANGED <<socket, ctx, socks, ownctx>>
            /\ iter' = [iter EXCEPT ![a] = LoopCheck(a)]
            /\ Result(a, "iter", "ok")
            /\ Escapes(a, "ok", caught)
       ELSE /\ SetupBound(a)
            /\ SubConnectImpl(a, f)
            /\ iter' = [iter EXCEPT ![a] = IF SubConnectRes(a, f) = "ok"
                                           THEN LoopCheck(a) ELSE "done"]
            /\ Result(a, "iter", SubConnectRes(a, f))
            /\ Escapes(a, SubConnectRes(a, f), caught)
    /\ UNCHANGED <<config, running, seq_no, sharedTerm, env, emitted, scope, delivery, inflight, function>>

\* The generator reaches `self.socket.recv_string()`.  With self.socket
\* None the expression raises AttributeError, which `except Exception`
\* prints before `continue`; otherwise the call is made on the socket
\* self.socket names at that moment.
IterCall(a) ==
    /\ IsSub(a) /\ Callable(a) /\ iter[a] = "recv"
    /\ iter' = [iter EXCEPT ![a] = IF socket[a] = 0 THEN LoopCheck(a) ELSE "blocked"]
    /\ inflight' = [inflight EXCEPT ![a] = socket[a]]
    /\ Result(a, "call", IF socket[a] = 0 THEN "AttributeError skipped" ELSE "ok")
    /\ UNCHANGED <<config, socket, ctx, running, seq_no, transport, env, emitted, scope, exc,
                   delivery, function>>

\* The socket of the call in progress was closed by another thread or task.
ClosedUnderneath(a) == inflight[a] # 0 /\ socks[a][inflight[a]].closed > 0

\* How a recv_string in progress ends when its socket is closed underneath
\* it.  The code leaves this to the transport: a zmq.Socket is not safe for
\* use from two threads, so the call may raise ZMQError or never return;
\* closing a zmq.asyncio socket cancels the receive it has pending, so the
\* awaiting generator may also get CancelledError, which is not an Exception.
ReleaseOutcomes(a) ==
    {"ZMQError", "never"} \cup (IF IsAsync(a) THEN {"CancelledError"} ELSE {})

\* How a recv_string in progress ends: a frame that parses, a frame that
\* does not, a ZMQError of the transport (broken socket, terminated
\* context), or zmq.Again when a RCVTIMEO the caller set on the socket
\* expires.
RecvOutcomes(a) ==
    IF ClosedUnderneath(a) THEN ReleaseOutcomes(a)
    ELSE {"frame", "garbage", "ZMQError", "Again"}

\* An `except zmq.ZMQError` that lets the error reach the consumer.
RecvStep_RaisesTransportError(a, r) ==
    IF r = "frame" THEN "yield"
    ELSE IF r = "garbage" THEN LoopCheck(a)
    ELSE IF r = "never" THEN "hung"
    ELSE "raised"

\* A loop that ends at the first frame that does not parse.
RecvStep_StopsOnBadFrame(a, r) ==
    IF r = "frame" THEN "yield"
    ELSE IF r \in {"garbage", "ZMQError", "Again"} THEN "done"
    ELSE IF r = "never" THEN "hung"
    ELSE "raised"

\* The rest of the pass: a parsed frame is yielded; an Exception (a frame
\* that does not parse) is printed and the loop continues; a ZMQError, and
\* zmq.Again is a subclass of it, breaks the loop; what the two `except`
\* clauses do not catch leaves the generator.
RecvStep(a, r) ==
    IF r = "frame" THEN "yield"
    ELSE IF r = "garbage" THEN LoopCheck(a)
    ELSE IF r \in {"ZMQError", "Again"} THEN "done"
    ELSE IF r = "never" THEN "hung"
    ELSE "raised"

\* recv_string returns or raises, and the pass of the loop completes.
IterRecv(a, r) ==
    /\ IsSub(a) /\ Callable(a) /\ iter[a] = "blocked"
    /\ r \in RecvOutcomes(a)
    /\ iter' = [iter EXCEPT ![a] = RecvStep(a, r)]
    /\ inflight' = [inflight EXCEPT ![a] = IF r = "never" THEN @ ELSE 0]
    /\ Result(a, "recv", r)
    /\ UNCHANGED <<config, socket, ctx, running, seq_no, transport, env, emitted, scope, exc,
                   function>>

\* The first entry of the queue with socket i taken out.
RECURSIVE TakeFirst(_, _)
TakeFirst(q, i) ==
    IF q = <<>> THEN <<>>
    ELSE IF Head(q).sock = i THEN Tail(q)
    ELSE <<Head(q)>> \o TakeFirst(Tail(q), i)

\* recv_string returns the oldest frame the transport holds for the socket,
\* and the pass of the loop completes with it.
Receive(a) ==
    /\ Queue(a, inflight[a]) # <<>>
    /\ LET x == Head(Queue(a, inflight[a])).frame IN
       /\ IterRecv(a, FrameOutcome(a, x))
       /\ inbox' = [inbox EXCEPT ![a] = TakeFirst(@, inflight[a])]
       /\ received' = [received EXCEPT ![a] = Append(@, Head(Queue(a, inflight[a])))]
       /\ yielded' = IF iter'[a] = "yield"
                     THEN [yielded EXCEPT ![a] = Append(@,
                              CHOOSE m \in ParseMessageJson(Unwrap(x), expected_type[a]) : TRUE)]
                     ELSE yielded
       /\ UNCHANGED sent

\* recv_string raises, or never returns.
ReceiveFails(a, r) ==
    /\ r \notin {"frame", "garbage"}
    /\ IterRecv(a, r)
    /\ UNCHANGED delivery

\* The consumer asks for the next message: the generator resumes after yield.
IterResume(a) ==
    /\ IsSub(a) /\ Callable(a) /\ iter[a] = "yield"
    /\ iter' = [iter EXCEPT ![a] = LoopCheck(a)]
    /\ Result(a, "next", "ok")
    /\ UNCHANGED <<config, socket, ctx, running, seq_no, transport, env, emitted, scope, exc, delivery, inflight, function>>

\* The consumer leaves its loop (break, return) at a yielded message.
IterBreak(a) ==
    /\ IsSub(a) /\ Callable(a) /\ iter[a] = "yield"
    /\ iter' = [iter EXCEPT ![a] = "idle"]
    /\ Result(a, "break", "ok")
    /\ UNCHANGED <<config, socket, ctx, running, seq_no, transport, env, emitted, scope, exc, delivery, inflight, function>>

(***************************************************************************)
(* with / async with                                                       *)
(***************************************************************************)

\* An __exit__ that returns True.
ExitSuppresses_Always(a) == TRUE

\* __exit__ / __aexit__ return None: the exception is not suppressed.
ExitSuppresses(a) == FALSE

\* __enter__ / __aenter__: the setup; the block is entered if it returns.
Enter(a, f) ==
    /\ scope[a] = "out" /\ Callable(a) /\ SetupBound(a)
    /\ IsPub(a) => f \in {0, 1}
    /\ SetupImpl(a, f)
    /\ scope' = [scope EXCEPT ![a] = IF SetupRes(a, f) = "ok" THEN "in" ELSE "out"]
    /\ Result(a, "enter", SetupRes(a, f))
    /\ UNCHANGED <<config, running, seq_no, sharedTerm, env, emitted, iter, exc, delivery, inflight, function>>

\* A statement of the block other than a call on the adapter raises.
BodyRaise(a) ==
    /\ scope[a] = "in" /\ Callable(a)
    /\ exc' = [exc EXCEPT ![a] = "Exception"]
    /\ Result(a, "body", "Exception")
    /\ UNCHANGED <<config, socket, ctx, running, seq_no, transport, env, emitted, iter, scope, delivery, inflight, function>>

\* __exit__ / __aexit__: the block is left, normally or by exc[a].
Exit(a) ==
    /\ scope[a] = "in"
    /\ CloseImpl(a)
    /\ scope' = [scope EXCEPT ![a] = "out"]
    /\ exc' = [exc EXCEPT ![a] = "none"]
    /\ Result(a, "exit", IF exc[a] = "none" \/ ExitSuppresses(a) THEN "ok" ELSE exc[a])
    /\ UNCHANGED <<config, seq_no, env, emitted, iter, delivery, inflight, function>>

\* The adapter's lifecycle, with the messages as first built.
Next ==
    \/ \E a \in Adapters : \E f \in FailPoints(a), caught \in BOOLEAN : Connect(a, f, caught)
    \/ \E a \in Adapters, caught \in BOOLEAN : Close(a, caught)
    \/ \E a \in Adapters, e \in Envs, enc \in BOOLEAN, tok \in BOOLEAN, caught \in BOOLEAN :
          Len(emitted[a]) < MaxFrames /\ Send(a, e, enc, tok, caught)
    \/ \E a \in Adapters, isstr \in BOOLEAN, tok \in BOOLEAN, caught \in BOOLEAN :
          Len(emitted[a]) < MaxFrames /\ SendRaw(a, isstr, tok, caught)
    \/ \E a \in Adapters : \E f \in FailPoints(a), caught \in BOOLEAN :
          IterStart(a, f, caught)
    \/ \E a \in Adapters : IterCall(a)
    \/ \E a \in Adapters : \E r \in RecvOutcomes(a) : IterRecv(a, r) /\ UNCHANGED delivery
    \/ \E a \in Adapters : IterResume(a)
    \/ \E a \in Adapters : IterBreak(a)
    \/ \E a \in Adapters : \E f \in FailPoints(a) : Enter(a, f)
    \/ \E a \in Adapters : BodyRaise(a)
    \/ \E a \in Adapters : Exit(a)

Spec == Init /\ [][Next]_vars

\* A publisher constructed with the defaults, sending messages whose
\* sequence_no the caller leaves at 0 or presets.
InitSeq == Init /\ \A a \in Adapters : IsPub(a) /\ ~is_bind[a] /\ ctx[a] = "None"

NextSeq ==
    \/ \E a \in Adapters : \E f \in FailPoints(a) : Connect(a, f, FALSE)
    \/ \E a \in Adapters : Close(a, FALSE)
    \/ \E e \in Envs, k \in MsgKinds, s \in 0 .. MaxPreset : BuildMessage(e, k, s)
    \/ \E a \in Adapters, e \in Envs, enc \in BOOLEAN, tok \in BOOLEAN :
          Send(a, e, enc, tok, FALSE)

SpecSeq == InitSeq /\ [][NextSeq]_vars

\* A subscriber at an endpoint the three publishers send to: constructed
\* with topics omitted, with the one prefix "sensor " or with two prefixes,
\* and with expected_type "auto" or "sensor".
SubTopicChoices == {<<>>, << <<"sensor", " ">> >>, << <<"sensor", " ">>, <<"displayHB", " ">> >>}

InitSub ==
    /\ Constructed(SubTopicChoices, {"auto", "sensor"})
    /\ \A a \in Adapters : IsSub(a) /\ is_bind[a] /\ ctx[a] = "None"
    /\ args = <<>> /\ ret = <<>>

\* The subscriber is set up once.
FirstSetup(a) == socks[a] = <<>>

NextSub ==
    \/ \E a \in Adapters : \E f \in FailPoints(a) : FirstSetup(a) /\ Connect(a, f, FALSE)
    \/ \E a \in Adapters : Close(a, FALSE)
    \/ \E a \in Adapters : \E f \in FailPoints(a) :
          (SocketLive(a) \/ FirstSetup(a)) /\ IterStart(a, f, FALSE)
    \/ \E a \in Adapters : IterCall(a)
    \/ \E a \in Adapters : Receive(a)
    \/ \E a \in Adapters : \E r \in RecvOutcomes(a) : ReceiveFails(a, r)
    \/ \E a \in Adapters : IterResume(a)
    \/ \E p \in Peers : PeerSend(p)
    \/ \E x \in RawFrames : PeerSendRaw(x)

SpecSub == InitSub /\ [][NextSub]_vars

(***************************************************************************)
(* Sequence numbers                                                        *)
(***************************************************************************)

\* The frames send() handed to the transport, in send order.
SendFrames(a) == SelectSeq(emitted[a], LAMBDA f : f.via = "send")

AllLeftAtZero(a) == \A i \in 1 .. Len(SendFrames(a)) : SendFrames(a)[i].zero

NumberedFromZero(a) == \A i \in 1 .. Len(SendFrames(a)) : SendFrames(a)[i].seq = i - 1

\* C1: on a synchronous publisher, the frames of n successful send() calls,
\* each given a message whose sequence_no was left at 0, carry
\* sequence_no 0, 1, ..., n-1 in send order.
C1_SyncNumbersFromZero ==
    \A a \in Adapters : kind[a] = "pub" /\ AllLeftAtZero(a) => NumberedFromZero(a)

C1_Witness ==
    \E a \in Adapters :
        /\ kind[a] = "pub" /\ AllLeftAtZero(a)
        /\ Len(SendFrames(a)) >= 3
        /\ SendFrames(a)[3].seq = 2

\* C2: the asynchronous publisher numbers the frames of messages left at 0
\* the same way: 0, 1, 2, ... in send order.
C2_AsyncNumbersFromZero ==
    \A a \in Adapters : kind[a] = "apub" /\ AllLeftAtZero(a) => NumberedFromZero(a)

Setups == {"connect", "enter", "iter"}
Closes == {"close", "exit"}

\* C4: an adapter constructed with an externally supplied context never
\* terminates it, whatever is called; the context stays referenced, live and
\* usable: no setup finds it terminated.
C4_BorrowerNeverTerminates ==
    \A a \in Adapters :
        ~is_own_context[a] =>
            /\ ctx[a] \in SharedCtx
            /\ sharedTerm[ctx[a]] = 0
            /\ ownctx[a] = <<>>
            /\ (last.a = a /\ last.op \in Setups) => last.res # "ZMQError"

\* A borrower that was set up, closed, and set up again on the same context.
C4_Witness ==
    \E a \in Adapters :
        /\ ~is_own_context[a]
        /\ Len(socks[a]) = 2 /\ socks[a][1].closed = 1 /\ socks[a][1].binds + socks[a][1].connects = 1
        /\ SocketLive(a) /\ last.op \in Setups /\ last.res = "ok"

\* C5: an adapter constructed without a context has no socket and no context
\* until a setup; no socket is closed twice and no context terminated twice;
\* the only socket (context) still open is the one the adapter holds; and
\* when close() has returned every socket and context it created is destroyed.
C5_CreatedLazilyDestroyedOnce ==
    \A a \in Adapters :
        is_own_context[a] =>
            /\ last.op = "init" => socks[a] = <<>> /\ ownctx[a] = <<>> /\ socket[a] = 0 /\ ctx[a] = "None"
            /\ \A i \in 1 .. Len(socks[a]) :
                  /\ socks[a][i].closed <= 1
                  /\ socks[a][i].closed = 0 => socket[a] = i
            /\ \A i \in 1 .. Len(ownctx[a]) :
                  /\ ownctx[a][i] <= 1
                  /\ ownctx[a][i] = 0 => (ctx[a] = "own" /\ i = Len(ownctx[a]))
            /\ (last.a = a /\ last.op \in Closes) =>
                  /\ socket[a] = 0 /\ ctx[a] = "None"
                  /\ \A i \in 1 .. Len(socks[a]) : socks[a][i].closed = 1
                  /\ \A i \in 1 .. Len(ownctx[a]) : ownctx[a][i] = 1

\* Two setup/close cycles of an owner, each with a socket and a context.
C5_Witness ==
    \E a \in Adapters :
        /\ is_own_context[a] /\ last.op = "close" /\ last.pre = "live"
        /\ Len(socks[a]) = 2 /\ Len(ownctx[a]) = 2

AdapterFields(a) == <<socket[a], ctx[a], running[a], seq_no[a]>>

\* C6: close() on an adapter that was never set up makes no transport call
\* and keeps socket and context as they are; close() right after a close()
\* makes no transport call and changes no field of the adapter.
C6_CloseIdempotent ==
    [][\A a \in Adapters :
          (last'.a = a /\ last'.op = "close") =>
              /\ (socks[a] = <<>> /\ ownctx[a] = <<>>) =>
                    (transport' = transport /\ socket'[a] = socket[a] /\ ctx'[a] = ctx[a])
              /\ (last.a = a /\ last.op \in Closes) =>
                    (transport' = transport /\ AdapterFields(a)' = AdapterFields(a))]_vars

\* A close() of an adapter that had created a context and already ended it.
C6_Witness ==
    \E a \in Adapters :
        /\ last.a = a /\ last.op = "close" /\ last.pre = "closed"
        /\ is_own_context[a] /\ Len(ownctx[a]) >= 1 /\ Len(socks[a]) >= 1

\* C7: a subscriber's connect() on a live socket issues no bind, connect or
\* subscribe and leaves the socket live.
C7_SubSetupIdempotent ==
    [][\A a \in Adapters :
          (IsSub(a) /\ SocketLive(a) /\ last'.a = a /\ last'.op \in {"connect", "enter"}) =>
              (socks' = socks /\ socket' = socket /\ last'.res = "ok")]_vars

\* C8: a publisher's connect() / _connect_impl() on a live socket creates no
\* socket, sets no option, issues no bind or connect and leaves socket and
\* context as they are.
C8_PubSetupIdempotent ==
    [][\A a \in Adapters :
          (IsPub(a) /\ SocketLive(a) /\ last'.a = a /\ last'.op \in {"connect", "enter"}) =>
              /\ transport' = transport
              /\ socket' = socket /\ ctx' = ctx
              /\ last'.res = "ok"]_vars

C8_Witness ==
    \E a \in Adapters :
        /\ IsPub(a) /\ last.a = a /\ last.op = "connect" /\ last.pre = "live"
        /\ SocketLive(a) /\ Len(socks[a]) = 1

\* The socket a setup works on: the live one, or the one it creates.
SetupSocket(a) == IF SocketLive(a) THEN socket[a] ELSE Len(socks[a]) + 1

\* C9: a setup whose bind/connect (or subscribe) fails raises
\* ConnectionError, has set linger to zero on its socket and closed it once,
\* and holds no socket; a setup that returns holds a live socket; and a setup
\* that finds no socket works on a new one.
C9_FailedSetupReleasesSocket ==
    [][\A a \in Adapters :
          (last'.a = a /\ last'.op \in Setups /\ socks' # socks) =>
              LET s == socks'[a][SetupSocket(a)] IN
              /\ last'.res \in {"ok", "ConnectionError"}
              /\ last'.res = "ConnectionError" =>
                    (s.linger0 /\ s.closed = 1 /\ socket'[a] = 0)
              /\ last'.res = "ok" =>
                    (~s.linger0 /\ s.closed = 0 /\ socket'[a] = SetupSocket(a))
              /\ socket[a] = 0 =>
                    (Len(socks'[a]) = Len(socks[a]) + 1 /\ s.binds + s.connects = 1)]_vars

\* A setup that succeeds on a new socket after one that failed.
C9_Witness ==
    \E a \in Adapters :
        /\ last.a = a /\ last.op \in Setups /\ last.res = "ok" /\ last.pre = "half"
        /\ Len(socks[a]) = 2 /\ socks[a][1].linger0 /\ socks[a][1].closed = 1
        /\ socket[a] = 2

\* C10: when a with / async with block is left, close() has run, so that
\* the adapter holds no socket and has none open, and the exception that
\* left the block, if any, reaches the caller.
C10_ScopeExitCloses ==
    [][\A a \in Adapters :
          (last'.a = a /\ last'.op = "exit") =>
              /\ scope[a] = "in"
              /\ socket'[a] = 0
              /\ \A i \in 1 .. Len(socks'[a]) : socks'[a][i].closed = 1
              /\ is_own_context[a] => ctx'[a] = "None"
              /\ last'.res = IF exc[a] = "none" THEN "ok" ELSE exc[a]]_vars

\* A block left by the error of a send() that failed in it.
C10_Witness ==
    \E a \in Adapters :
        /\ IsPub(a) /\ last.a = a /\ last.op = "exit" /\ last.pre = "live"
        /\ last.res \in {"ZMQError", "ConnectionError"}
        /\ socket[a] = 0

(***************************************************************************)
(* Failures of send() and send_raw()                                       *)
(***************************************************************************)

Sends == {"send", "send_raw"}

\* C11 as claimed: send() / send_raw() on a publisher that holds no socket
\* (never set up, setup failed, closed) raises ConnectionError and hands no
\* frame to the transport.
C11_UnconnectedSendFails ==
    [][\A a \in Adapters :
          (IsPub(a) /\ socket[a] = 0 /\ last'.a = a /\ last'.op \in Sends) =>
              /\ last'.res = "ConnectionError"
              /\ last'.sends = 0 /\ emitted' = emitted]_vars

\* C11 as amended: such a call never returns, makes no transport call and
\* hands no frame over; the error is ConnectionError unless the call failed
\* before it reached the connection check, on a message that does not
\* encode (send) or on a payload that is not a str (send_raw).
C11_UnconnectedSendHandsNothing ==
    [][\A a \in Adapters :
          (IsPub(a) /\ socket[a] = 0 /\ last'.a = a /\ last'.op \in Sends) =>
              /\ last'.res \in {"ConnectionError", "EncodeError", "TypeError"}
              /\ last'.res = "EncodeError" => last'.op = "send"
              /\ last'.res = "TypeError" => last'.op = "send_raw"
              /\ last'.sends = 0 /\ emitted' = emitted]_vars

\* A send() refused on a publisher whose setup had failed.
C11_Witness ==
    \E a \in Adapters :
        /\ IsPub(a) /\ last.a = a /\ last.op = "send" /\ last.res = "ConnectionError"
        /\ last.pre = "half" /\ Len(socks[a]) = 1 /\ socks[a][1].closed = 1
        /\ emitted[a] = <<>>

\* C12: a send() calls the transport's send at most once; it returns only
\* when that one call has returned, with the frame appended to what the
\* transport holds; a send() that fails raises the error of the step that
\* failed, and no frame is handed over.
C12_SendOnceOrRaise ==
    [][\A a \in Adapters :
          (last'.a = a /\ last'.op = "send") =>
              /\ last'.sends <= 1
              /\ last'.res = "ok" =>
                    (last'.sends = 1 /\ Len(emitted'[a]) = Len(emitted[a]) + 1)
              /\ last'.res # "ok" =>
                    /\ emitted' = emitted
                    /\ last'.res \in {"EncodeError", "ConnectionError", "ZMQError"}
                    /\ last'.res = "ZMQError" <=> last'.sends = 1
                    /\ last'.res = "ConnectionError" => socket[a] = 0]_vars

\* A send() the transport refused, after one that it took.
C12_Witness ==
    \E a \in Adapters :
        /\ IsPub(a) /\ last.a = a /\ last.op = "send" /\ last.res = "ZMQError"
        /\ last.sends = 1 /\ Len(emitted[a]) = 1


(***************************************************************************)
(* _unwrap_topic_prefixed_payload, called on every str up to MaxLen        *)
(***************************************************************************)

Symbols == {"{", " ", "\t", "t"}

Strs(n) == UNION {[1 .. k -> Symbols] : k \in 0 .. n}

InitUnwrap ==
    /\ Constructed(TopicChoices, {"auto"})
    /\ \A a \in Adapters : kind[a] = "sub" /\ is_bind[a] /\ ctx[a] = "None"
    /\ args \in Strs(MaxLen)
    /\ ret = <<>>

CallUnwrap ==
    /\ ret = <<>>
    /\ ret' = <<Unwrap(args)>>
    /\ UNCHANGED <<config, socket, ctx, running, seq_no, transport, env, emitted, iter, scope,
                   exc, last, inflight, delivery, args>>

NextUnwrap == CallUnwrap

SpecUnwrap == InitUnwrap /\ [][NextUnwrap]_vars

\* x is t + " " + j for a topic t that has no space and an encoded message
\* j, which begins with "{".
Prefixed(x, t, j) ==
    /\ x = t \o <<" ">> \o j
    /\ FirstSpace(t, 1) = 0
    /\ StartsWithBrace(j)

Splits(x) == {<<SubSeq(x, 1, i - 1), SubSeq(x, i + 1, Len(x))>> : i \in 1 .. Len(x)}

\* C19 as claimed: for every topic t with no space that does not begin with
\* "{" and every j beginning with "{", unwrapping t + " " + j gives j, and
\* unwrapping j gives j.
C19_UnwrapBothForms ==
    ret # <<>> =>
        /\ StartsWithBrace(args) => ret[1] = args
        /\ \A tj \in Splits(args) :
              (Prefixed(args, tj[1], tj[2]) /\ ~StartsWithBrace(tj[1])) => ret[1] = tj[2]

\* C19 as amended: the same for every topic t with no space that, leading
\* whitespace aside, is not empty and does not begin with "{".
C19_UnwrapBothFormsNamedTopic ==
    ret # <<>> =>
        /\ StartsWithBrace(args) => ret[1] = args
        /\ \A tj \in Splits(args) :
              (Prefixed(args, tj[1], tj[2]) /\ LStrip(tj[1]) # <<>>
               /\ ~StartsWithBrace(LStrip(tj[1]))) => ret[1] = tj[2]

\* A prefixed frame unwrapped to its message, which itself has a space.
C19_Witness ==
    /\ args = <<"t", " ", "{", " ">> /\ ret = << <<"{", " ">> >>

(***************************************************************************)
(* The factories                                                           *)
(***************************************************************************)

Factories == {"get_publisher", "get_async_publisher", "get_subscriber", "get_async_subscriber"}

\* The adapter classes, called directly.
Constructors == {"ZmqPublisher", "AsyncZmqPublisher", "ZmqSubscriber", "AsyncZmqSubscriber"}

\* The class each factory, and each constructor, instantiates.
FactoryClass(f) ==
    CASE f \in {"get_publisher", "ZmqPublisher"} -> "pub"
      [] f \in {"get_async_publisher", "AsyncZmqPublisher"} -> "apub"
      [] f \in {"get_subscriber", "ZmqSubscriber"} -> "sub"
      [] f \in {"get_async_subscriber", "AsyncZmqSubscriber"} -> "asub"

\* options.backend_type: of ZmqPubOptions / ZmqSubOptions, of MqttPubOptions
\* / MqttSubOptions, and of an options object of neither class.
Backends == {"zmq", "mqtt", "other"}

\* isinstance(c, cls): zmq.asyncio.Context is a subclass of zmq.Context.
IsInstance(c, cls) == c = cls \/ (c = "AsyncContext" /\ cls = "Context")

\* Factories that test the context against the class their adapter wants.
FactoryRes_ChecksWantedClass(f, b, c) ==
    IF b = "mqtt" THEN "NotImplementedError"
    ELSE IF b # "zmq" THEN "ValueError"
    ELSE IF c = "None" THEN "ok"
    ELSE IF FactoryClass(f) \in {"pub", "sub"}
         THEN IF IsInstance(c, "Context") THEN "ok" ELSE "TypeError"
         ELSE IF IsInstance(c, "AsyncContext") THEN "ok" ELSE "TypeError"

\* Factories that take every backend for zmq.
FactoryRes_AnyBackend(f, b, c) ==
    IF c = "None" THEN "ok"
    ELSE IF FactoryClass(f) \in {"pub", "sub"}
         THEN IF IsInstance(c, "AsyncContext") THEN "TypeError" ELSE "ok"
         ELSE IF IsInstance(c, "AsyncContext") THEN "ok" ELSE "TypeError"

\* What the factory does with options of backend b and context c, up to the
\* call of the constructor: both kinds of factory test the context against
\* zmq.asyncio.Context.
FactoryRes(f, b, c) ==
    IF b = "mqtt" THEN "NotImplementedError"
    ELSE IF b # "zmq" THEN "ValueError"
    ELSE IF c = "None" THEN "ok"
    ELSE IF FactoryClass(f) \in {"pub", "sub"}
         THEN IF IsInstance(c, "AsyncContext") THEN "TypeError" ELSE "ok"
         ELSE IF IsInstance(c, "AsyncContext") THEN "ok" ELSE "TypeError"

\* No adapter exists yet: the application holds options (is_bind, topics,
\* expected_type, a context or none, a backend) and is about to call one of
\* the factories with them, or one of the constructors with their fields.
InitFactory ==
    /\ kind = [a \in Adapters |-> "none"]
    /\ is_bind \in [Adapters -> BOOLEAN]
    /\ topics = [a \in Adapters |-> TopicsOrDefault(<<>>)]
    /\ expected_type = [a \in Adapters |-> "auto"]
    /\ hwm = [a \in Adapters |-> 1000]
    /\ inflight = [a \in Adapters |-> 0]
    /\ inbox = [a \in Adapters |-> <<>>]
    /\ received = [a \in Adapters |-> <<>>]
    /\ yielded = [a \in Adapters |-> <<>>]
    /\ sent = <<>>
    /\ ctx = [a \in Adapters |-> "None"]
    /\ is_own_context = [a \in Adapters |-> FALSE]
    /\ socket = [a \in Adapters |-> 0]
    /\ running = [a \in Adapters |-> FALSE]
    /\ seq_no = [a \in Adapters |-> 0]
    /\ socks = [a \in Adapters |-> <<>>]
    /\ ownctx = [a \in Adapters |-> <<>>]
    /\ sharedTerm = [c \in SharedCtx |-> 0]
    /\ env = [e \in Envs |-> NewMessage("sensor", 0)]
    /\ emitted = [a \in Adapters |-> <<>>]
    /\ iter = [a \in Adapters |-> "idle"]
    /\ scope = [a \in Adapters |-> "out"]
    /\ exc = [a \in Adapters |-> "none"]
    /\ last \in {[a |-> a, op |-> "none", res |-> "ok", pre |-> "closed", sends |-> 0] :
                      a \in Adapters}
    /\ args \in [factory : Factories \cup Constructors, backend_type : Backends,
                 context : {"None"} \cup SharedCtx]
    /\ args.factory \in Constructors => args.backend_type = "zmq"
    /\ ret = <<>>

Built(a) == kind[a] \in Kinds

\* get_publisher / get_async_publisher / get_subscriber /
\* get_async_subscriber (options): raise, or construct the adapter with the
\* options' fields.
CallFactory(a) ==
    /\ ~Built(a) /\ ret = <<>> /\ args.factory \in Factories
    /\ LET r == FactoryRes(args.factory, args.backend_type, args.context)
       IN /\ ret' = <<r>>
          /\ Result(a, "factory", r)
          /\ IF r = "ok"
             THEN /\ kind' = [kind EXCEPT ![a] = FactoryClass(args.factory)]
                  /\ ctx' = [ctx EXCEPT ![a] = args.context]
                  /\ is_own_context' = [is_own_context EXCEPT ![a] = args.context = "None"]
                  /\ running' = [running EXCEPT ![a] = TRUE]
             ELSE UNCHANGED <<kind, ctx, is_own_context, running>>
    /\ UNCHANGED <<is_bind, topics, expected_type, hwm, socket, seq_no, transport, env, emitted,
                   iter, scope, exc, inflight, delivery, args>>

\* __init__ of the four classes stores the context it is given, whatever
\* its class.
ConstructorRes(f, c) == "ok"

\* ZmqPublisher(...) / AsyncZmqPublisher(...) / ZmqSubscriber(...) /
\* AsyncZmqSubscriber(...), called by the application itself.
CallConstructor(a) ==
    /\ ~Built(a) /\ ret = <<>> /\ args.factory \in Constructors
    /\ LET r == ConstructorRes(args.factory, args.context)
       IN /\ ret' = <<r>>
          /\ Result(a, "construct", r)
          /\ IF r = "ok"
             THEN /\ kind' = [kind EXCEPT ![a] = FactoryClass(args.factory)]
                  /\ ctx' = [ctx EXCEPT ![a] = args.context]
                  /\ is_own_context' = [is_own_context EXCEPT ![a] = args.context = "None"]
                  /\ running' = [running EXCEPT ![a] = TRUE]
             ELSE UNCHANGED <<kind, ctx, is_own_context, running>>
    /\ UNCHANGED <<is_bind, topics, expected_type, hwm, socket, seq_no, transport, env, emitted,
                   iter, scope, exc, inflight, delivery, args>>

\* The adapter holds no shared context (none, or one it created), or one of
\* its own concurrency kind.
Matching(a) == ctx[a] \in SharedCtx => ctx[a] \in ContextChoices(kind[a])

\* After the construction the adapter is used as in Spec; of an adapter
\* that holds a context of the other kind only the setup is followed, which
\* is the same synchronous code in the four classes.
NextFactory ==
    \/ \E a \in Adapters : CallFactory(a)
    \/ \E a \in Adapters : CallConstructor(a)
    \/ (\A a \in Adapters : Built(a) /\ Matching(a)) /\ Next
    \/ \E a \in Adapters : \E f \in FailPoints(a) :
          Built(a) /\ ~Matching(a) /\ Connect(a, f, FALSE)

SpecFactory == InitFactory /\ [][NextFactory]_vars

\* The context is of the other concurrency kind than the factory's adapter.
OtherKind(f, c) ==
    \/ FactoryClass(f) \in {"pub", "sub"} /\ c = "AsyncContext"
    \/ FactoryClass(f) \in {"apub", "asub"} /\ c = "Context"

\* C20: a zmq factory given a context of the other concurrency kind raises
\* TypeError and leaves no adapter and no socket behind, then or later;
\* given a context of its own kind or none it returns an adapter of its
\* class holding that context, no socket created yet.
C20_FactoryRejectsOtherKind ==
    [][\A a \in Adapters :
          /\ (~Built(a))' => socks'[a] = <<>> /\ ownctx'[a] = <<>>
          /\ (last'.op = "factory" /\ last'.a = a /\ args.backend_type = "zmq") =>
                IF OtherKind(args.factory, args.context)
                THEN /\ ret' = <<"TypeError">> /\ ~Built(a)'
                     /\ socket'[a] = 0
                ELSE /\ ret' = <<"ok">> /\ kind'[a] = FactoryClass(args.factory)
                     /\ ctx'[a] = args.context /\ socks'[a] = <<>> /\ socket'[a] = 0]_vars

\* get_subscriber was called with an asyncio context and raised TypeError.
C20_Witness ==
    /\ args.factory = "get_subscriber" /\ args.context = "AsyncContext"
    /\ ret = <<"TypeError">>
    /\ \A a \in Adapters : ~Built(a) /\ socks[a] = <<>>

FramesOf(q) == [i \in 1 .. Len(q) |-> q[i].frame]

\* The messages the frames of q decode to under expected_type e, in order,
\* the frames that do not decode left out.
RECURSIVE DecodeAll(_, _)
DecodeAll(q, e) ==
    IF q = <<>> THEN <<>>
    ELSE LET ms == ParseMessageJson(Unwrap(Head(q).frame), e)
         IN (IF ms = {} THEN <<>> ELSE <<CHOOSE m \in ms : TRUE>>) \o DecodeAll(Tail(q), e)

\* The frames recv_string returned on socket i, then those still queued on
\* it, are the frames the socket took, in the order they were published.
InArrivalOrder(a) ==
    \A i \in 1 .. Len(socks[a]) :
        FramesOf(SelectSeq(received[a], LAMBDA e : e.sock = i)) \o FramesOf(Queue(a, i))
            = FramesOf(SelectSeq(sent, LAMBDA e : e.to[a] = i))

YieldsTheDecodable(a) == yielded[a] = DecodeAll(received[a], expected_type[a])

\* A step receives at most one frame, the head of a queue, and yields the
\* message it decodes to, or nothing if it does not decode.
OneFrameAtATime(a) ==
    IF received'[a] = received[a] THEN yielded'[a] = yielded[a]
    ELSE /\ inbox[a] # <<>> /\ received'[a] = Append(received[a], Head(inbox[a]))
         /\ yielded'[a] = yielded[a] \o DecodeAll(<<Head(inbox[a])>>, expected_type[a])

\* C13: the messages yielded are the frames received that decode under
\* expected_type, in arrival order, each step adding the message of the one
\* frame it received, if that decodes; and after a frame that does not decode
\* the loop goes on to the next receive (unless close() has cleared
\* _running meanwhile).
C13_DecodeFailureSkipsFrame ==
    [][\A a \in Adapters :
          /\ YieldsTheDecodable(a) /\ OneFrameAtATime(a) /\ InArrivalOrder(a)'
          /\ (last'.a = a /\ last'.op = "recv" /\ last'.res = "garbage") =>
                 iter'[a] = IF running[a] THEN "recv" ELSE "done"]_vars

\* A message yielded right after a frame that did not decode was skipped.
C13_Witness ==
    \E a \in Adapters :
        /\ iter[a] = "yield" /\ expected_type[a] = "sensor"
        /\ Len(received[a]) = 2 /\ Len(yielded[a]) = 1
        /\ ParseMessageJson(Unwrap(received[a][1].frame), "sensor") = {}
        /\ yielded[a][1].sender_id = "pub_c"

\* C17: a subscriber subscribed to "sensor " only, whose socket was open
\* when each of the three publishers sent its one message, has yielded,
\* once nothing is left to receive, the message of the publisher configured
\* with topic "sensor" and no other.
C17_TopicFilter ==
    \A a \in Adapters :
        (/\ topics[a] = << <<"sensor", " ">> >> /\ SocketLive(a)
         /\ Len(sent) = 3 /\ \A p \in Peers : Len(SentBy(p)) = 1
         /\ \A k \in 1 .. Len(sent) : sent[k].live[a] = socket[a]
         /\ Queue(a, socket[a]) = <<>> /\ iter[a] \in {"blocked", "yield"})
            => yielded[a] = <<MessageOf("sensor", "pub_a")>>

\* C18: a setup that returns has issued one bind or connect and one
\* subscribe for each topic; topics is never empty, and a subscriber
\* constructed without topics, subscribed to "", has every frame published
\* while its socket is open queued on that socket, and yields the decodable
\* ones in order, with or without a topic before the message.
C18_SubscribePerTopic ==
    [][\A a \in Adapters :
          /\ (last'.a = a /\ last'.op \in Setups /\ last'.res = "ok" /\ socket[a] = 0) =>
                LET s == socks'[a][socket'[a]] IN
                /\ s.binds + s.connects = 1
                /\ s.subs = Len(topics[a])
          /\ topics[a] # <<>>
          /\ topics[a] = << <<>> >> =>
                /\ \A k \in 1 .. Len(sent') : sent'[k].to[a] = sent'[k].live[a]
                /\ YieldsTheDecodable(a) /\ OneFrameAtATime(a)
                /\ InArrivalOrder(a)']_vars

\* A subscriber of every topic that yielded a message sent behind a topic
\* and one sent without.
C18_Witness ==
    \E a \in Adapters :
        /\ topics[a] = << <<>> >> /\ iter[a] = "yield" /\ Len(yielded[a]) = 2
        /\ received[a][1].frame = <<"sensor", " ">> \o Encode(yielded[a][1])
        /\ received[a][2].frame = Encode(yielded[a][2])
        /\ yielded[a][2].sender_id = "pub_b"

\* C14: a receive that is in progress when close() runs is released and the
\* consumer's loop ends, without an exception.
C14_CloseEndsIteration ==
    [][\A a \in Adapters :
          (iter[a] = "blocked" /\ ClosedUnderneath(a) /\ ~running[a]
           /\ last'.a = a /\ last'.op = "recv") => iter'[a] = "done"]_vars

\* C15: an iteration started on a subscriber that holds a live socket (set
\* up by connect(), also after a close()) enters the receive loop.
C15_RestartableViaReconnect ==
    [][\A a \in Adapters :
          (SocketLive(a) /\ last'.a = a /\ last'.op = "iter") => iter'[a] = "recv"]_vars

\* C16: a ZMQError raised by recv_string ends the iteration as a normal end
\* of the sequence: the generator returns, and no exception reaches the
\* consumer or leaves its block.
C16_TransportErrorEndsStream ==
    [][\A a \in Adapters :
          (last'.a = a /\ last'.op = "recv" /\ last'.res \in {"ZMQError", "Again"}) =>
              (iter'[a] = "done" /\ exc' = exc)]_vars

\* A receive ended by the transport's error on a socket that is still open.
C16_Witness ==
    \E a \in Adapters :
        /\ last.a = a /\ last.op = "recv" /\ last.res = "ZMQError" /\ last.pre = "live"
        /\ iter[a] = "done" /\ running[a]

\* C27: send_raw of a payload that is not a str raises TypeError, makes no
\* transport call and hands no frame over, on a connected publisher and on
\* an unconnected one alike.
C27_NonStringPayloadRejected ==
    [][\A a \in Adapters, tok \in BOOLEAN, caught \in BOOLEAN :
          SendRaw(a, FALSE, tok, caught) =>
              /\ last'.a = a /\ last'.op = "send_raw" /\ last'.res = "TypeError"
              /\ last'.sends = 0 /\ emitted' = emitted /\ socks' = socks]_vars

\* A non-str payload refused by a publisher that holds a live socket.
C27_Witness ==
    \E a \in Adapters :
        /\ IsPub(a) /\ SocketLive(a)
        /\ last.a = a /\ last.op = "send_raw" /\ last.res = "TypeError" /\ last.pre = "live"

\* C28: a factory called with options of a backend other than zmq raises
\* (NotImplementedError for mqtt, ValueError otherwise) and leaves no
\* adapter, no socket and no context behind, then or later.
C28_UnsupportedBackendRejected ==
    [][\A a \in Adapters :
          args.backend_type # "zmq" =>
              /\ ~Built(a)' /\ socket'[a] = 0 /\ socks'[a] = <<>> /\ ownctx'[a] = <<>>
              /\ (last'.op = "factory" /\ last'.a = a) =>
                    /\ ret' = <<IF args.backend_type = "mqtt"
                                THEN "NotImplementedError" ELSE "ValueError">>
                    /\ last'.res = ret'[1]]_vars

\* get_async_publisher was called with mqtt options and raised.
C28_Witness ==
    /\ args.factory = "get_async_publisher" /\ args.backend_type = "mqtt"
    /\ ret = <<"NotImplementedError">>
    /\ \A a \in Adapters : ~Built(a) /\ socks[a] = <<>>

\* C21: a constructor given a context of the other concurrency kind raises,
\* and no adapter exists on which socket work could begin.
C21_ConstructorRejectsOtherKind ==
    [][\A a \in Adapters :
          (last'.op = "construct" /\ last'.a = a
           /\ OtherKind(args.factory, args.context)) =>
              /\ ret' # <<"ok">> /\ ~Built(a)'
              /\ socks'[a] = <<>>]_vars

(***************************************************************************)
(* parse_message_json, model_dump_json and get_status, called on their own *)
(*                                                                         *)
(* A JSON text and the object it denotes determine each other up to        *)
(* whitespace, so the functions are applied to objects: every object over  *)
(* the fields of the three message classes and the two payload classes,    *)
(* with values of the right and of the wrong type, in and out of range.    *)
(***************************************************************************)

\* A payload that is a SensorPayload, and two that are a HeartBeatPayload.
SomePayloads ==
    {JObj([isThereHuman |-> JBool(TRUE), human_exist_possibility |-> JFloat(2525),
           sensor_status |-> JStr("ok"), sensor_status_code |-> JInt(1)]),
     JObj([status |-> JStr("up"), status_code |-> JInt(2)]),
     JObj([status |-> JStr("up"), status_code |-> JStr("2")])}

\* The objects parsed: SensorMessages with every payload, and objects with
\* any of the fields of the three classes.
JsonInputs ==
    LET Opt(S) == {<<>>} \cup {<<v>> : v \in S}
        \* The object with the members c gives a value for.
        Object(c) == [k \in {k \in DOMAIN c : c[k] # <<>>} |-> c[k][1]]
        PayloadInputs ==
            {JObj(Object(c)) :
                c \in [isThereHuman : Opt({JBool(TRUE), JInt(1)}),
                       human_exist_possibility :
                           Opt({JNull, JInt(-1), JInt(0), JFloat(2525), JInt(100),
                                JFloat(10001)}),
                       sensor_status : Opt({JStr("ok")}),
                       sensor_status_code : Opt({JInt(1)}),
                       status : Opt({JStr("up")}),
                       status_code : Opt({JInt(2), JStr("2")})]}
    IN
    {Object(c) :
        c \in [sender_id : {<<JStr("s")>>},
               sender_name : {<<JNull>>},
               timestamp : {<<JStr("2025-12-31 23:59")>>},
               data_type : {<<JStr("d")>>},
               payload : {<<x>> : x \in PayloadInputs},
               sequence_no : Opt({JInt(2)})]}
    \cup
    {Object(c) :
        c \in [sender_id : Opt({JStr("s")}),
               sender_name : Opt({JNull, JStr("n")}),
               timestamp : Opt({JStr("2025-12-31T23:59:30")}),
               data_type : Opt({JStr("d")}),
               payload : Opt(SomePayloads),
               sequence_no : Opt({JInt(2)}),
               is_override_mode : Opt({JBool(TRUE)}),
               sensor_display_dict :
                   Opt({JObj(<<>>),
                        JObj([slot1 |->
                                JObj([sensor_name |-> JStr("front"),
                                      is_there_human |-> JBool(FALSE),
                                      human_exist_possibility |-> JFloat(2525)])])}),
               moter_mode : Opt({JStr("m")}),
               ordered_mode : Opt({JStr("o")})]}

\* The messages a program constructs.
Constructible ==
    LET Payloads ==
            [variant : {"SensorPayload"}, isThereHuman : BOOLEAN,
             human_exist_possibility : {<<>>, <<0>>, <<2525>>, <<10000>>},
             sensor_status : {"ok"}, sensor_status_code : {1}]
            \cup [variant : {"HeartBeatPayload"}, status : {"up"}, status_code : {2}]
        DisplayModes ==
            [sensor_name : {"front"}, is_there_human : BOOLEAN,
             human_exist_possibility : {<<>>, <<10000>>}]
    IN
    [kind : {"sensor"}, sender_id : {"s"}, sender_name : {<<>>, <<"n">>},
     timestamp : Datetimes, data_type : {"d"}, payload : Payloads, sequence_no : {0, 2}]
    \cup [kind : {"display"}, sender_id : {"s"}, timestamp : Datetimes,
          is_override_mode : BOOLEAN,
          sensor_display_dict :
              {{}} \cup {{[slot |-> "slot1", mode |-> e]} : e \in DisplayModes}
                   \cup {{[slot |-> "slot1", mode |-> e], [slot |-> "slot2", mode |-> e]} :
                            e \in DisplayModes},
          moter_mode : {"m"}]
    \cup [kind : {"motor"}, sender_id : {"s"}, timestamp : Datetimes,
          is_override_mode : BOOLEAN, ordered_mode : {"o"}]

\* A call is parse_message_json on an object, or on what model_dump_json
\* writes for a message.
InitDecode ==
    /\ Constructed(TopicChoices, {"auto"})
    /\ \A a \in Adapters : kind[a] = "sub" /\ is_bind[a] /\ ctx[a] = "None"
    /\ args \in [json : JsonInputs, expected_type : ExpectedMessageType]
                  \cup [msg : Constructible, expected_type : ExpectedMessageType]
    /\ ret = <<>>

\* msg.model_dump_json()
CallModelDumpJson ==
    /\ Has(args, "msg") /\ ~Has(args, "json")
    /\ args' = args @@ [json |-> ModelDumpJson(args.msg)]
    /\ UNCHANGED <<config, socket, ctx, running, seq_no, transport, env, emitted, iter, scope,
                   exc, last, inflight, delivery, ret>>

\* parse_message_json(json_str, expected_type)
CallParseMessageJson ==
    /\ Has(args, "json") /\ ~Has(ret, "parsed")
    /\ ret' = [parsed |-> ParseMessageObject(args.json, args.expected_type)]
    /\ UNCHANGED <<config, socket, ctx, running, seq_no, transport, env, emitted, iter, scope,
                   exc, last, inflight, delivery, args>>

\* msg.get_status() on the SensorMessage parse_message_json returned
CallGetStatus ==
    /\ Has(ret, "parsed") /\ ~Has(ret, "status")
    /\ ret.parsed # {} /\ Only(ret.parsed).kind = "sensor"
    /\ ret' = ret @@ [status |-> GetStatus(Only(ret.parsed))]
    /\ UNCHANGED <<config, socket, ctx, running, seq_no, transport, env, emitted, iter, scope,
                   exc, last, inflight, delivery, args>>

NextDecode ==
    \/ CallModelDumpJson
    \/ CallParseMessageJson
    \/ CallGetStatus

SpecDecode == InitDecode /\ [][NextDecode]_vars

\* parse_message_json has returned or raised.
Parsed == Has(ret, "parsed")

\* C22: with expected_type sensor, display or motor, parse_message_json
\* returns a message exactly when the object validates as that class, the
\* message is of that class, and an object that validates only as another
\* class is refused.
C22_ExplicitKindOnly ==
    (Parsed /\ args.expected_type # "auto") =>
        /\ \A m \in ret.parsed : m.kind = args.expected_type
        /\ ret.parsed # {} <=> ValidateMessage(args.json, args.expected_type) # {}

\* Refused as a sensor message though it is a display message; returned as a
\* motor message though it is a display message as well.
C22_Witness ==
    /\ Parsed
    /\ \/ /\ args.expected_type = "sensor" /\ ret.parsed = {}
          /\ ValidateMessage(args.json, "display") # {}
       \/ /\ args.expected_type = "motor" /\ ret.parsed # {}
          /\ ValidateMessage(args.json, "display") # {}

RECURSIVE FirstMatch(_)
FirstMatch(rs) ==
    IF rs = <<>> THEN {} ELSE IF Head(rs) # {} THEN Head(rs) ELSE FirstMatch(Tail(rs))

\* C23: with expected_type auto, parse_message_json returns what the first
\* of SensorMessage, DisplayMessage, MotorMessage that validates the object
\* gives, and raises only if none does.
C23_AutoFirstMatch ==
    (Parsed /\ args.expected_type = "auto") =>
        ret.parsed = {r.value : r \in FirstMatch(<<ValidateMessage(args.json, "sensor"),
                                                   ValidateMessage(args.json, "display"),
                                                   ValidateMessage(args.json, "motor")>>)}

\* The payload of the object parsed, if it has one.
HasPayload == Has(args, "json") /\ Has(args.json, "payload")

\* The cases of a payload: one that validates as SensorPayload is decoded as
\* SensorPayload, whether or not it validates as HeartBeatPayload too; one
\* that validates as HeartBeatPayload only, as HeartBeatPayload; one that
\* validates as neither is refused.
PayloadCases ==
    (Parsed /\ HasPayload /\ args.expected_type = "sensor"
       /\ ValidateSensorMessage([args.json EXCEPT !.payload = Only(SomePayloads)]) # {}) =>
        LET p == args.json.payload
            sp == ValidateSensorPayload(p)
            hb == ValidateHeartBeatPayload(p)
        IN /\ sp # {} => ret.parsed # {} /\ Only(ret.parsed).payload.variant = "SensorPayload"
           /\ (sp = {} /\ hb # {}) =>
                  ret.parsed # {} /\ Only(ret.parsed).payload.variant = "HeartBeatPayload"
           /\ (sp = {} /\ hb = {}) => ret.parsed = {}

\* C24: the payload of a SensorMessage that parse_message_json returns is
\* what the first of SensorPayload, HeartBeatPayload that validates the
\* object's payload gives; when neither does, no SensorMessage is returned.
C24_PayloadFirstMatch ==
    /\ PayloadCases
    /\ (Parsed /\ HasPayload) =>
          \A m \in ret.parsed :
              m.kind = "sensor" =>
                  m.payload =
                      Only(FirstMatch(<<ValidateSensorPayload(args.json.payload),
                                        ValidateHeartBeatPayload(args.json.payload)>>)).value

\* A payload that is both, and one that is both where only the
\* HeartBeatPayload validates without conversion, decoded as SensorPayload.
C24_Witness ==
    /\ Parsed /\ HasPayload /\ ret.parsed # {}
    /\ Only(ret.parsed).kind = "sensor"
    /\ Only(ret.parsed).payload.variant = "SensorPayload"
    /\ ValidateHeartBeatPayload(args.json.payload) # {}
    /\ Only(ValidateSensorPayload(args.json.payload)).lax
    /\ ~Only(ValidateHeartBeatPayload(args.json.payload)).lax

\* The possibility of the object's payload is a number outside 0 .. 100.
OutOfRange(x) ==
    /\ x.t = "obj" /\ Has(x.o, "human_exist_possibility")
    /\ ValidateFloat(x.o.human_exist_possibility) # {}
    /\ LET h == Only(ValidateFloat(x.o.human_exist_possibility)).v IN h < 0 \/ h > 10000

\* C25: an object whose payload has a human_exist_possibility outside
\* [0, 100] is refused.
C25_PossibilityRangeEnforced ==
    (Parsed /\ HasPayload /\ OutOfRange(args.json.payload)) => ret.parsed = {}

\* The message with its timestamp cut to the minute.
Truncated(m) == [m EXCEPT !.timestamp.second = 0]

\* C26: what parse_message_json with "auto" makes of model_dump_json() of a
\* message is that message with its timestamp cut to the minute.
C26_RoundTrip ==
    (Parsed /\ Has(args, "msg") /\ args.expected_type = "auto") =>
        ret.parsed = {Truncated(args.msg)}

\* C29: get_status on a SensorMessage that parse_message_json returned gives
\* (sensor_status_code, sensor_status) for a SensorPayload and (status_code,
\* status) for a HeartBeatPayload, and does not raise.
C29_GetStatus ==
    Has(ret, "status") =>
        LET p == Only(ret.parsed).payload
        IN /\ p.variant \in {"SensorPayload", "HeartBeatPayload"}
           /\ p.variant = "SensorPayload" =>
                  ret.status = <<[int |-> p.sensor_status_code], [str |-> p.sensor_status]>>
           /\ p.variant = "HeartBeatPayload" =>
                  ret.status = <<[int |-> p.status_code], [str |-> p.status]>>

C29_Witness ==
    /\ Has(ret, "status")
    /\ Only(ret.parsed).payload.variant = "HeartBeatPayload"
    /\ ret.status = <<[int |-> 2], [str |-> "up"]>>

(***************************************************************************)
(* A subscriber with a small hwm and publishers that outrun it             *)
(***************************************************************************)

InitHwm ==
    /\ ConstructedWith({<<>>}, {"auto"}, {1, 2})
    /\ \A a \in Adapters : IsSub(a) /\ is_bind[a] /\ ctx[a] = "None"
    /\ args = <<>> /\ ret = <<>>

NextHwm ==
    \/ \E a \in Adapters : \E f \in FailPoints(a) : FirstSetup(a) /\ Connect(a, f, FALSE)
    \/ \E a \in Adapters : \E f \in FailPoints(a) :
          (SocketLive(a) \/ FirstSetup(a)) /\ IterStart(a, f, FALSE)
    \/ \E a \in Adapters : IterCall(a)
    \/ \E a \in Adapters : Receive(a)
    \/ \E a \in Adapters : IterResume(a)
    \/ \E p \in {"pub_a", "pub_c"} : PeerBurst(p)

SpecHwm == InitHwm /\ [][NextHwm]_vars

\* The frames the adapter was handed or is still to be handed, in order.
Arrived(a) == received[a] \o inbox[a]

\* Those that publisher p sent are some of the frames p sent, each once, in
\* the order p sent them.
SubsequenceOfSent(a, p) ==
    LET q == SelectSeq(Arrived(a), LAMBDA e : e.from = p)
    IN /\ \A i \in 1 .. Len(q) :
             /\ q[i].no \in 1 .. Len(sent)
             /\ sent[q[i].no].from = p /\ sent[q[i].no].frame = q[i].frame
       /\ \A i, j \in 1 .. Len(q) : i < j => q[i].no < q[j].no

C31_CounterCountsSuccessfulSends ==
    [][\A a \in Adapters :
          kind[a] = "pub" =>
              /\ seq_no[a] = Len(SendFrames(a))
              /\ seq_no'[a] = Len(SendFrames(a)')
              /\ seq_no'[a] = seq_no[a] + (IF last'.op = "send" /\ last'.res = "ok"
                                           THEN 1 ELSE 0)]_vars

\* Two sends returned, the first with a preset number, and a third raised.
C31_Witness ==
    \E a \in Adapters :
        /\ kind[a] = "pub" /\ seq_no[a] = 2 /\ Len(SendFrames(a)) = 2
        /\ ~SendFrames(a)[1].zero /\ SendFrames(a)[2].zero
        /\ last.op = "send" /\ last.res # "ok"

\* C32: a send() that raises leaves the sequence_no of the caller's message
\* as it was before the call.
C32_FailedSendLeavesMessage ==
    [][(last'.op = "send" /\ last'.res # "ok") => env' = env]_vars

\* C33: no two frames a synchronous publisher's send() handed over carry the
\* same sequence_no.
C33_SequenceNumbersUnique ==
    \A a \in Adapters : \A i, j \in 1 .. Len(SendFrames(a)) :
        (kind[a] = "pub" /\ i < j /\ SendFrames(a)[i].seq >= 0)
            => SendFrames(a)[i].seq # SendFrames(a)[j].seq

(***************************************************************************)
(* Iterating a subscriber that was closed                                  *)
(***************************************************************************)

\* close() has returned and no connect() has set the subscriber up since.
ClosedSub(a) == IsSub(a) /\ ~running[a] /\ socket[a] = 0

\* C34: once close() has returned, an iteration that is under way yields
\* nothing beyond the message of the frame it had already received (a
\* received frame and its yield are one step here, so that message is the
\* one the consumer holds), begins no other recv_string on a socket, and
\* comes to its end.
C34_ClosedIterationEnds ==
    [][\A a \in Adapters :
          ClosedSub(a) =>
              /\ yielded'[a] = yielded[a]
              /\ ((last'.a = a /\ last'.op = "call") => inflight'[a] = 0)
              /\ iter'[a] # "hung"]_vars

\* C35: an iteration started after close() has returned, with no connect()
\* in between, creates no socket and no context: when it has ended the
\* subscriber holds no socket, and no context it did not hold before.
C35_IterationAfterCloseOpensNothing ==
    [][\A a \in Adapters :
          (ClosedSub(a) /\ last'.a = a /\ last'.op = "iter") =>
              /\ socket'[a] = 0 /\ socks'[a] = socks[a]
              /\ ctx'[a] = ctx[a]]_vars

(***************************************************************************)
(* A setup that fails on entering a with block                             *)
(***************************************************************************)

\* C36: when the setup of __enter__ / __aenter__ raises on an adapter that
\* was constructed without a context, the adapter is left with no socket
\* and with no context of its own that has not been terminated.
C36_FailedEnterReleasesAll ==
    [][\A a \in Adapters :
          (is_own_context[a] /\ last'.a = a /\ last'.op = "enter" /\ last'.res # "ok") =>
              (socket'[a] = 0 /\ ctx'[a] # "own")]_vars

(***************************************************************************)
(* A receive timeout set on the socket                                     *)
(***************************************************************************)

\* C37: when the RCVTIMEO the caller set on the socket expires, the zmq.Again
\* of recv_string reaches the consumer of the iteration as an exception; the
\* sequence does not just end as it does when the transport is closed.
C37_TimeoutReachesConsumer ==
    [][\A a \in Adapters :
          (last'.a = a /\ last'.op = "recv" /\ last'.res = "Again") =>
              iter'[a] = "raised"]_vars

(***************************************************************************)
(* _unwrap_topic_prefixed_payload on topics of any form                    *)
(***************************************************************************)

\* x is t + " " + j for a topic t that has no "{" but may have spaces, and
\* an encoded message j, which begins with "{".
PrefixedByAnyTopic(x, t, j) ==
    /\ x = t \o <<" ">> \o j
    /\ \A i \in 1 .. Len(t) : t[i] # "{"
    /\ StartsWithBrace(j)

\* C38: for every topic t, one that has a space included, and every encoded
\* message j, unwrapping t + " " + j gives j.
C38_UnwrapAnyTopic ==
    ret # <<>> =>
        \A tj \in Splits(args) : PrefixedByAnyTopic(args, tj[1], tj[2]) => ret[1] = tj[2]

\* C39: unwrapping what unwrap returned changes nothing; unwrap returns the
\* frame or the part of it after its first space; and a frame that begins
\* with "{", leading whitespace aside, is returned as it is, spaces inside
\* it included.
C39_UnwrapIdempotent ==
    ret # <<>> =>
        /\ Unwrap(ret[1]) = ret[1]
        /\ \/ ret[1] = args
           \/ /\ FirstSpace(args, 1) # 0
              /\ ret[1] = SubSeq(args, FirstSpace(args, 1) + 1, Len(args))
        /\ StartsWithBrace(LStrip(args)) => ret[1] = args

\* A frame unwrapped to the part after its first space, which begins with
\* whitespace and is returned unchanged by a second unwrap.
C39_Witness ==
    /\ args = <<"t", " ", "\t", "{">> /\ ret = << <<"\t", "{">> >>
    /\ Unwrap(ret[1]) = ret[1]

====
